---- MODULE Spec2Model ----
(***************************************************************************)
(* ShmitWare data codec: footprint arithmetic, the field algebra, the raw  *)
(* bit transfer routines and the Packet encoder/decoder, as a state        *)
(* machine over (object, buffer, cursor); and the Egress / Ingress         *)
(* adapters that carry a value to and from a session buffer, with the      *)
(* result envelope they answer in.  Beside them the helpers the codec and  *)
(* its callers lean on: the Memory math in size_t, Span::subspan and the   *)
(* BasicTimer that polls a clock.                                          *)
(*                                                                         *)
(* Memory is modelled bytewise.  A value's storage is the sequence of its  *)
(* bytes in address order, so `reinterpret_cast<uint8_t const*>(&value)`   *)
(* is the storage itself; wherever a storage is read as a number the host  *)
(* is little-endian, as the repository's tests assume.  A buffer is a      *)
(* sequence of bytes; C++ index i is TLA+ index i + 1.                     *)
(***************************************************************************)
EXTENDS Integers, Sequences, FiniteSets, TLC

VARIABLES
    obj,        \* the caller's object handed to encode (the value v)
    dst,        \* the caller's object handed to decode (same schema as obj)
    buffer,     \* the caller's byte buffer (the Span's backing storage)
    cursor,     \* the caller's offset_bits
    result,     \* BinaryResult of the last call, "none" before any call
    phase,      \* position of the caller: ready, encoded, rewound, decoded, ...
    entry,      \* the last call: what it was handed and what it returned
    encoded,    \* the encode call the caller made, once it has made one
    visits,     \* the calls of a walk or of a call sequence, in the order made
    session,    \* the session buffer behind an Egress / Ingress and the calls it received
    timer,      \* a BasicTimer, the clock it reads and the last call made on it
    spans       \* a Span over the caller's storage and the last subspan taken of it

vars == <<obj, dst, buffer, cursor, result, phase, entry, encoded, visits, session, timer, spans>>

----------------------------------------------------------------------------
(* Bounds of the model *)

\* Largest number of fields of a generated Packet
MaxFields == 3
\* Largest entry cursor (in bits) handed to a single-field call
MaxCursor == 9
\* Width in bits that std::size_t is modelled at
SizeWidth == 16
\* How far from either end of the range of size_t the rounded positions lie
MaxAlignInput == 40

----------------------------------------------------------------------------
(* Bytes and bit operations on them *)

kSuccessCode == "success"
kFailureCode == "failure"

Min(a, b) == IF a < b THEN a ELSE b

Pow2(n) == 2 ^ n

\* a & b on unsigned 8-bit operands
RECURSIVE BitAnd(_, _)
BitAnd(a, b) ==
    IF a = 0 \/ b = 0 THEN 0
    ELSE ((a % 2) * (b % 2)) + 2 * BitAnd(a \div 2, b \div 2)

\* a ^ b on unsigned 8-bit operands, in the place of a | b
RECURSIVE BitXor(_, _)
BitXor(a, b) ==
    IF a = 0 THEN b
    ELSE IF b = 0 THEN a
    ELSE (((a % 2) + (b % 2)) % 2) + 2 * BitXor(a \div 2, b \div 2)

\* a | b on unsigned 8-bit operands
RECURSIVE BitOr(_, _)
BitOr(a, b) ==
    IF a = 0 THEN b
    ELSE IF b = 0 THEN a
    ELSE (IF (a % 2) + (b % 2) > 0 THEN 1 ELSE 0) + 2 * BitOr(a \div 2, b \div 2)

\* (uint8_t)(a << n): the int result of the shift stored back into a byte
ShiftLeft8(a, n) == (a * Pow2(n)) % 256

\* a >> n
ShiftRight(a, n) == a \div Pow2(n)

\* constexpr std::array<uint8_t, 9> kBitMasks; C++ index k is kBitMasks[k + 1]
kBitMasks == <<0, 1, 3, 7, 15, 31, 63, 127, 255>>

\* Bit i (LSB = bit 0 of byte 0) of a byte sequence; 0 beyond its end
StreamBit(bytes, i) ==
    IF (i \div 8) + 1 \in DOMAIN bytes
    THEN (bytes[(i \div 8) + 1] \div Pow2(i % 8)) % 2
    ELSE 0

----------------------------------------------------------------------------
(* Memory math *)

\* std::size_t is unsigned and SizeWidth bits wide: its arithmetic wraps
SizeMod == 2 ^ SizeWidth
SizeMax == SizeMod - 1

\* return (num_bytes << 3)
bits_to_contain(num_bytes) == (num_bytes * 8) % SizeMod

bytes_to_contain(num_bits) ==
    LET kSizeOverflowsBoundary == (num_bits % 8) # 0
        kBaseSizeBytes == num_bits \div 8
    IN  kBaseSizeBytes + (IF kSizeOverflowsBoundary THEN 1 ELSE 0)

\* next_boundary_bit_pos that rounds down to the boundary below
next_boundary_bit_pos_floor(start_bit_pos) ==
    bits_to_contain(start_bit_pos \div 8)

next_boundary_bit_pos(start_bit_pos) ==
    bits_to_contain(bytes_to_contain(start_bit_pos))

----------------------------------------------------------------------------
(* Field algebra.  An object is a record                                    *)
(*   kind   : "Value" (a plain T), "Field", "BitField", "ConstBitField",    *)
(*            "Packet" (a Packet, alone or as Field<Packet> inside one)     *)
(*   bits   : kSizeBits of a leaf (0 for a Packet, whose size is folded)    *)
(*   value  : the storage bytes of a leaf's value (<<>> for a Packet)       *)
(*   fields : m_fields of a Packet (<<>> for a leaf)                        *)

\* smallest_unsigned_t<BitSizeV>, as sizeof of the selected type
smallest_unsigned(BitSizeV) ==
    IF BitSizeV <= 8 THEN 1
    ELSE IF BitSizeV <= 16 THEN 2
    ELSE IF BitSizeV <= 32 THEN 4
    ELSE 8

Value(bytes) ==
    [kind |-> "Value", bits |-> 8 * Len(bytes), value |-> bytes, fields |-> <<>>]

Field(bytes) ==
    [kind |-> "Field", bits |-> 8 * Len(bytes), value |-> bytes, fields |-> <<>>]

BitField(SizeBitsV, bytes) ==
    [kind |-> "BitField", bits |-> SizeBitsV, value |-> bytes, fields |-> <<>>]

ConstBitField(SizeBitsV, bytes) ==
    [kind |-> "ConstBitField", bits |-> SizeBitsV, value |-> bytes, fields |-> <<>>]

Packet(m_fields) ==
    [kind |-> "Packet", bits |-> 0, value |-> <<>>, fields |-> m_fields]

is_packet(T) == T.kind = "Packet"

IsBitLevel(T) == T.kind \in {"BitField", "ConstBitField"}

----------------------------------------------------------------------------
(* Footprint: the schema-time size fold *)

RECURSIVE add_field_size_bits(_, _)
RECURSIVE accumulate_packet_field_size_bits_recursive(_, _, _, _)
RECURSIVE packet_size_bits(_)
RECURSIVE kSizeBits(_)

\* Field<T>::kSizeBits, BitField<N>::kSizeBits, Packet<...>::kSizeBits
kSizeBits(T) ==
    IF is_packet(T) THEN packet_size_bits(T) ELSE T.bits

\* add_field_size_bits that adds a Field's size without first rounding the
\* aggregate up to a byte
add_field_size_bits_unaligned(aggregate, field) ==
    aggregate + kSizeBits(field)

\* The three overloads: Field<T> (which a nested Packet is), BitField,
\* ConstBitField
add_field_size_bits(aggregate, field) ==
    IF IsBitLevel(field)
    THEN aggregate + kSizeBits(field)
    ELSE LET kAggregateBytes == bytes_to_contain(aggregate)
         IN  bits_to_contain(kAggregateBytes) + kSizeBits(field)

accumulate_packet_field_size_bits_recursive(IndexV, EndV, PacketT, aggregate) ==
    IF IndexV = EndV THEN aggregate
    ELSE accumulate_packet_field_size_bits_recursive(
             IndexV + 1, EndV, PacketT,
             add_field_size_bits(aggregate, PacketT.fields[IndexV + 1]))

\* packet_size_bits without the closing next_boundary_bit_pos
packet_size_bits_unrounded(PacketT) ==
    accumulate_packet_field_size_bits_recursive(0, Len(PacketT.fields), PacketT, 0)

packet_size_bits(PacketT) ==
    LET kAccumulatedFieldsSizeBits ==
            accumulate_packet_field_size_bits_recursive(
                0, Len(PacketT.fields), PacketT, 0)
    IN  next_boundary_bit_pos(kAccumulatedFieldsSizeBits)

footprint_size_bits(T) == kSizeBits(T)

footprint_size_bytes(T) == bytes_to_contain(kSizeBits(T))

----------------------------------------------------------------------------
(* Raw bit transfer.  dest and src are whole byte sequences; d and s are   *)
(* the TLA+ indices the C++ pointers stand at.                             *)

RECURSIVE encode_bits_loop(_, _, _, _, _, _)

\* The loop without the mask on the tail it carries into the next byte
encode_bits_loop_unmasked_tail(dest, d, src, s, offset_bits, size_bits) ==
    IF size_bits = 0 THEN dest
    ELSE
        LET kStartByteBitsAvailable == 8 - offset_bits
            kFrontBitsThatFit == Min(kStartByteBitsAvailable, size_bits)
            dest1 == [dest EXCEPT ![d] =
                        BitOr(@, ShiftLeft8(BitAnd(src[s], kBitMasks[kFrontBitsThatFit + 1]),
                                            offset_bits))]
            size1 == size_bits - kFrontBitsThatFit
        IN  IF offset_bits > 0 /\ size1 > 0
            THEN LET kLeftoverBits == Min(offset_bits, size1)
                     dest2 == [dest1 EXCEPT ![d + 1] =
                                 ShiftRight(src[s], kFrontBitsThatFit)]
                 IN  encode_bits_loop(dest2, d + 1, src, s + 1, offset_bits,
                                      size1 - kLeftoverBits)
            ELSE encode_bits_loop(dest1, d + 1, src, s + 1, offset_bits, size1)

\* The while loop of encode_bits
encode_bits_loop(dest, d, src, s, offset_bits, size_bits) ==
    IF size_bits = 0 THEN dest
    ELSE
        LET kStartByteBitsAvailable == 8 - offset_bits
            kFrontBitsThatFit == Min(kStartByteBitsAvailable, size_bits)
            \* *dest++ |= ((*src & kBitMasks[front]) << offset_bits)
            dest1 == [dest EXCEPT ![d] =
                        BitOr(@, ShiftLeft8(BitAnd(src[s], kBitMasks[kFrontBitsThatFit + 1]),
                                            offset_bits))]
            size1 == size_bits - kFrontBitsThatFit
        IN  IF offset_bits > 0 /\ size1 > 0
            THEN LET kLeftoverBits == Min(offset_bits, size1)
                     \* *dest = ((*src >> front) & kBitMasks[leftover])
                     dest2 == [dest1 EXCEPT ![d + 1] =
                                 BitAnd(ShiftRight(src[s], kFrontBitsThatFit),
                                        kBitMasks[kLeftoverBits + 1])]
                 IN  encode_bits_loop(dest2, d + 1, src, s + 1, offset_bits,
                                      size1 - kLeftoverBits)
            ELSE encode_bits_loop(dest1, d + 1, src, s + 1, offset_bits, size1)

encode_bits(dest, src, offset_bits, size_bits) ==
    LET offset_bytes0 == bytes_to_contain(offset_bits)
        offset_in_byte == offset_bits % 8            \* offset_bits &= kModulo8Mask
        offset_bytes == IF offset_in_byte > 0 /\ offset_bytes0 > 0
                        THEN offset_bytes0 - 1 ELSE offset_bytes0
    IN  encode_bits_loop(dest, offset_bytes + 1, src, 1, offset_in_byte, size_bits)

\* The while loop of decode_bits
RECURSIVE decode_bits_loop(_, _, _, _, _, _)
decode_bits_loop(dest, d, src, s, offset_bits, size_bits) ==
    IF size_bits = 0 THEN dest
    ELSE
        LET kStartByteBitsAvailable == 8 - offset_bits
            kFrontBitsThatFit == Min(kStartByteBitsAvailable, size_bits)
            \* *dest = ((*src++ >> offset_bits) & kBitMasks[front])
            dest1 == [dest EXCEPT ![d] =
                        BitAnd(ShiftRight(src[s], offset_bits),
                               kBitMasks[kFrontBitsThatFit + 1])]
            size1 == size_bits - kFrontBitsThatFit
        IN  IF offset_bits > 0 /\ size1 > 0
            THEN LET kLeftoverBits == Min(offset_bits, size1)
                     \* *dest |= ((*src & kBitMasks[leftover]) << front)
                     dest2 == [dest1 EXCEPT ![d] =
                                 BitOr(@, ShiftLeft8(BitAnd(src[s + 1], kBitMasks[kLeftoverBits + 1]),
                                                     kFrontBitsThatFit))]
                 IN  decode_bits_loop(dest2, d + 1, src, s + 1, offset_bits,
                                      size1 - kLeftoverBits)
            ELSE decode_bits_loop(dest1, d + 1, src, s + 1, offset_bits, size1)

decode_bits(dest, src, offset_bits, size_bits) ==
    LET offset_bytes0 == bytes_to_contain(offset_bits)
        offset_in_byte == offset_bits % 8            \* offset_bits &= kModulo8Mask
        offset_bytes == IF offset_in_byte > 0 /\ offset_bytes0 > 0
                        THEN offset_bytes0 - 1 ELSE offset_bytes0
    IN  decode_bits_loop(dest, 1, src, offset_bytes + 1, offset_in_byte, size_bits)

\* std::memcpy(&dest[at], src, count), at as a C++ index
memcpy(dest, at, src, count) ==
    [i \in DOMAIN dest |->
        IF i > at /\ i <= at + count THEN src[i - at] ELSE dest[i]]

----------------------------------------------------------------------------
(* Encoders.  Each returns [result, buffer, offset_bits]: the BinaryResult, *)
(* the buffer's bytes and the in/out cursor after the call.                *)

EncodeReturn(r, b, o) == [result |-> r, buffer |-> b, offset_bits |-> o]

\* One call of encode / decode on field IndexV of a Packet: the cursor it
\* was handed, the cursor it left and what it returned
Visit(IndexV, offset_bits, ret) ==
    [index |-> IndexV, from |-> offset_bits, to |-> ret.offset_bits,
     result |-> ret.result]

\* The return `ret` of a walk over the fields, with the calls it made
Visited(ret, calls) == [f \in DOMAIN ret \cup {"visits"} |->
                          IF f = "visits" THEN calls ELSE ret[f]]

\* encode(T) whose start byte is offset_bits / 8 rounded down
encode_Value_floor(o, buf, offset_bits) ==
    LET kDataStartByteOffset == offset_bits \div 8
        kDataFootprintBytes == footprint_size_bytes(o)
    IN  IF (kDataStartByteOffset + kDataFootprintBytes) > Len(buf)
        THEN EncodeReturn(kFailureCode, buf, offset_bits)
        ELSE EncodeReturn(kSuccessCode,
                 memcpy(buf, kDataStartByteOffset, o.value, kDataFootprintBytes),
                 bits_to_contain(kDataStartByteOffset) + footprint_size_bits(o))

\* encode(T const& obj, Span<uint8_t> buffer, size_t& offset_bits)
encode_Value(o, buf, offset_bits) ==
    LET kDataStartByteOffset == bytes_to_contain(offset_bits)
        kDataFootprintBytes == footprint_size_bytes(o)
    IN  IF (kDataStartByteOffset + kDataFootprintBytes) > Len(buf)
        THEN EncodeReturn(kFailureCode, buf, offset_bits)
        ELSE EncodeReturn(kSuccessCode,
                 memcpy(buf, kDataStartByteOffset, o.value, kDataFootprintBytes),
                 bits_to_contain(kDataStartByteOffset) + footprint_size_bits(o))

\* encode(BitField) that starts at the next byte boundary, as encode(T) does
encode_BitField_aligned(bitfield, buf, offset_bits) ==
    LET kBufferSizeBits == bits_to_contain(Len(buf))
        start == next_boundary_bit_pos(offset_bits)
    IN  IF (start + kSizeBits(bitfield)) > kBufferSizeBits
        THEN EncodeReturn(kFailureCode, buf, offset_bits)
        ELSE EncodeReturn(kSuccessCode,
                 encode_bits(buf, bitfield.value, start, kSizeBits(bitfield)),
                 start + kSizeBits(bitfield))

\* encode(BitField) that asks for a spare bit behind the field
encode_BitField_needs_spare(bitfield, buf, offset_bits) ==
    LET kBufferSizeBits == bits_to_contain(Len(buf))
    IN  IF (offset_bits + kSizeBits(bitfield)) >= kBufferSizeBits
        THEN EncodeReturn(kFailureCode, buf, offset_bits)
        ELSE EncodeReturn(kSuccessCode,
                 encode_bits(buf, bitfield.value, offset_bits, kSizeBits(bitfield)),
                 offset_bits + kSizeBits(bitfield))

\* encode(BitField<SizeBitsV> const&, ...)
encode_BitField(bitfield, buf, offset_bits) ==
    LET kBufferSizeBits == bits_to_contain(Len(buf))
    IN  IF (offset_bits + kSizeBits(bitfield)) > kBufferSizeBits
        THEN EncodeReturn(kFailureCode, buf, offset_bits)
        ELSE EncodeReturn(kSuccessCode,
                 encode_bits(buf, bitfield.value, offset_bits, kSizeBits(bitfield)),
                 offset_bits + kSizeBits(bitfield))

\* encode(ConstBitField<SizeBitsV> const&, ...)
encode_ConstBitField(bitfield, buf, offset_bits) ==
    LET kBufferSizeBits == bits_to_contain(Len(buf))
    IN  IF (offset_bits + kSizeBits(bitfield)) > kBufferSizeBits
        THEN EncodeReturn(kFailureCode, buf, offset_bits)
        ELSE EncodeReturn(kSuccessCode,
                 encode_bits(buf, bitfield.value, offset_bits, kSizeBits(bitfield)),
                 offset_bits + kSizeBits(bitfield))

RECURSIVE encode(_, _, _)
RECURSIVE encode_Field(_, _, _)
RECURSIVE encode_Packet(_, _, _)
RECURSIVE encode_packet_fields_recursive(_, _, _, _, _)

\* encode(Field<T> const&, ...): passes through to the value's encoding,
\* which for Field<Packet<...>> is the Packet overload
encode_Field(field, buf, offset_bits) ==
    IF is_packet(field) THEN encode_Packet(field, buf, offset_bits)
    ELSE encode_Value(field, buf, offset_bits)

\* Overload resolution of encode(x, buffer, offset_bits)
encode(o, buf, offset_bits) ==
    CASE o.kind = "Value"         -> encode_Value(o, buf, offset_bits)
      [] o.kind = "Field"         -> encode_Field(o, buf, offset_bits)
      [] o.kind = "BitField"      -> encode_BitField(o, buf, offset_bits)
      [] o.kind = "ConstBitField" -> encode_ConstBitField(o, buf, offset_bits)
      [] o.kind = "Packet"        -> encode_Field(o, buf, offset_bits)

\* Do that hands every field the cursor Do itself was entered with
encode_packet_fields_recursive_from_entry(IndexV, EndV, buf, offset_bits, data) ==
    IF IndexV = EndV THEN Visited(EncodeReturn(kSuccessCode, buf, offset_bits), <<>>)
    ELSE LET r == encode(data[IndexV + 1], buf, offset_bits)
             visit == Visit(IndexV, offset_bits, r)
         IN  IF r.result = kFailureCode THEN Visited(r, <<visit>>)
             ELSE LET rest == encode_packet_fields_recursive(IndexV + 1, EndV, r.buffer,
                                                             offset_bits, data)
                  IN  Visited(rest, <<visit>> \o rest.visits)

\* encode_packet_fields_recursive<IndexV, EndV, PacketT>::Do; the return
\* carries, besides Do's own, the list of the fields handed to encode
encode_packet_fields_recursive(IndexV, EndV, buf, offset_bits, data) ==
    IF IndexV = EndV THEN Visited(EncodeReturn(kSuccessCode, buf, offset_bits), <<>>)
    ELSE LET r == encode(data[IndexV + 1], buf, offset_bits)
             visit == Visit(IndexV, offset_bits, r)
         IN  IF r.result = kFailureCode THEN Visited(r, <<visit>>)
             ELSE LET rest == encode_packet_fields_recursive(IndexV + 1, EndV, r.buffer,
                                                             r.offset_bits, data)
                  IN  Visited(rest, <<visit>> \o rest.visits)

\* encode(Packet) that commits the cursor the fields left, not rounded up
encode_Packet_uncommitted_boundary(packet, buf, offset_bits) ==
    LET kDataStartOffsetBytes == bytes_to_contain(offset_bits)
        encode_offset_bits == bits_to_contain(kDataStartOffsetBytes)
    IN  IF (kDataStartOffsetBytes + footprint_size_bytes(packet)) > Len(buf)
        THEN EncodeReturn(kFailureCode, buf, offset_bits)
        ELSE LET r == encode_packet_fields_recursive(
                          0, Len(packet.fields), buf, encode_offset_bits, packet.fields)
             IN  IF r.result = kSuccessCode
                 THEN EncodeReturn(r.result, r.buffer, r.offset_bits)
                 ELSE EncodeReturn(r.result, r.buffer, offset_bits)

\* encode(Packet) that works on the caller's cursor, so that a failure
\* leaves it rounded up to the byte boundary
encode_Packet_on_callers_cursor(packet, buf, offset_bits) ==
    LET kDataStartOffsetBytes == bytes_to_contain(offset_bits)
        encode_offset_bits == bits_to_contain(kDataStartOffsetBytes)
    IN  IF (kDataStartOffsetBytes + footprint_size_bytes(packet)) > Len(buf)
        THEN EncodeReturn(kFailureCode, buf, encode_offset_bits)
        ELSE LET r == encode_packet_fields_recursive(
                          0, Len(packet.fields), buf, encode_offset_bits, packet.fields)
             IN  EncodeReturn(r.result, r.buffer, next_boundary_bit_pos(r.offset_bits))

\* encode(Packet) without its own overflow guard, leaving the check to the
\* fields' encoders
encode_Packet_unguarded(packet, buf, offset_bits) ==
    LET kDataStartOffsetBytes == bytes_to_contain(offset_bits)
        encode_offset_bits == bits_to_contain(kDataStartOffsetBytes)
        r == encode_packet_fields_recursive(
                 0, Len(packet.fields), buf, encode_offset_bits, packet.fields)
    IN  IF r.result = kSuccessCode
        THEN EncodeReturn(r.result, r.buffer, next_boundary_bit_pos(r.offset_bits))
        ELSE EncodeReturn(r.result, r.buffer, offset_bits)

\* encode(Packet) that starts its fields at the caller's cursor as it is
encode_Packet_from_unaligned(packet, buf, offset_bits) ==
    LET kDataStartOffsetBytes == bytes_to_contain(offset_bits)
    IN  IF (kDataStartOffsetBytes + footprint_size_bytes(packet)) > Len(buf)
        THEN EncodeReturn(kFailureCode, buf, offset_bits)
        ELSE LET r == encode_packet_fields_recursive(
                          0, Len(packet.fields), buf, offset_bits, packet.fields)
             IN  IF r.result = kSuccessCode
                 THEN EncodeReturn(r.result, r.buffer, next_boundary_bit_pos(r.offset_bits))
                 ELSE EncodeReturn(r.result, r.buffer, offset_bits)

\* encode(Packet<FieldT...> const&, Span<uint8_t>, size_t&)
encode_Packet(packet, buf, offset_bits) ==
    LET kDataStartOffsetBytes == bytes_to_contain(offset_bits)
        encode_offset_bits == bits_to_contain(kDataStartOffsetBytes)
    IN  IF (kDataStartOffsetBytes + footprint_size_bytes(packet)) > Len(buf)
        THEN EncodeReturn(kFailureCode, buf, offset_bits)
        ELSE LET r == encode_packet_fields_recursive(
                          0, Len(packet.fields), buf, encode_offset_bits, packet.fields)
             IN  IF r.result = kSuccessCode
                 THEN EncodeReturn(r.result, r.buffer, next_boundary_bit_pos(r.offset_bits))
                 ELSE EncodeReturn(r.result, r.buffer, offset_bits)

----------------------------------------------------------------------------
(* Decoders.  Each returns [result, obj, offset_bits]: the BinaryResult,    *)
(* the destination object and the in/out cursor after the call.            *)

DecodeReturn(r, o, c) == [result |-> r, obj |-> o, offset_bits |-> c]

\* std::memcpy(&obj, &buffer[at], count)
StorageFrom(buf, at, count) == [i \in 1..count |-> buf[at + i]]

\* decode(T) whose start byte is offset_bits / 8 rounded down
decode_Value_floor(buf, offset_bits, o) ==
    LET kDataStartByteOffset == offset_bits \div 8
        kDataFootprintBytes == footprint_size_bytes(o)
    IN  IF (kDataStartByteOffset + kDataFootprintBytes) > Len(buf)
        THEN DecodeReturn(kFailureCode, o, offset_bits)
        ELSE DecodeReturn(kSuccessCode,
                 [o EXCEPT !.value = StorageFrom(buf, kDataStartByteOffset, kDataFootprintBytes)],
                 bits_to_contain(kDataStartByteOffset) + footprint_size_bits(o))

\* decode(Span<uint8_t const> buffer, size_t& offset_bits, T& obj)
decode_Value(buf, offset_bits, o) ==
    LET kDataStartByteOffset == bytes_to_contain(offset_bits)
        kDataFootprintBytes == footprint_size_bytes(o)
    IN  IF (kDataStartByteOffset + kDataFootprintBytes) > Len(buf)
        THEN DecodeReturn(kFailureCode, o, offset_bits)
        ELSE DecodeReturn(kSuccessCode,
                 [o EXCEPT !.value = StorageFrom(buf, kDataStartByteOffset, kDataFootprintBytes)],
                 bits_to_contain(kDataStartByteOffset) + footprint_size_bits(o))

\* decode(BitField) that moves the cursor past the field when it fails too
decode_BitField_consumes_on_failure(buf, offset_bits, bitfield) ==
    LET kBufferSizeBits == bits_to_contain(Len(buf))
    IN  IF (offset_bits + kSizeBits(bitfield)) > kBufferSizeBits
        THEN DecodeReturn(kFailureCode, bitfield, offset_bits + kSizeBits(bitfield))
        ELSE DecodeReturn(kSuccessCode,
                 [bitfield EXCEPT !.value =
                     decode_bits(@, buf, offset_bits, kSizeBits(bitfield))],
                 offset_bits + kSizeBits(bitfield))

\* decode(Span<uint8_t const>, size_t&, BitField<SizeBitsV>&)
decode_BitField(buf, offset_bits, bitfield) ==
    LET kBufferSizeBits == bits_to_contain(Len(buf))
    IN  IF (offset_bits + kSizeBits(bitfield)) > kBufferSizeBits
        THEN DecodeReturn(kFailureCode, bitfield, offset_bits)
        ELSE DecodeReturn(kSuccessCode,
                 [bitfield EXCEPT !.value =
                     decode_bits(@, buf, offset_bits, kSizeBits(bitfield))],
                 offset_bits + kSizeBits(bitfield))

\* decode(ConstBitField) that stores what it decodes, as decode(BitField)
decode_ConstBitField_stores(buf, offset_bits, bitfield) ==
    decode_BitField(buf, offset_bits, bitfield)

\* decode(Span<uint8_t const>, size_t&, ConstBitField<SizeBitsV>&)
decode_ConstBitField(buf, offset_bits, bitfield) ==
    DecodeReturn(kSuccessCode, bitfield, offset_bits + kSizeBits(bitfield))

RECURSIVE decode(_, _, _)
RECURSIVE decode_Field(_, _, _)
RECURSIVE decode_Packet(_, _, _)
RECURSIVE decode_packet_fields_recursive(_, _, _, _, _)

\* decode(Span<uint8_t const>, size_t&, Field<T>&)
decode_Field(buf, offset_bits, field) ==
    IF is_packet(field) THEN decode_Packet(buf, offset_bits, field)
    ELSE decode_Value(buf, offset_bits, field)

\* Overload resolution of decode(buffer, offset_bits, x)
decode(buf, offset_bits, o) ==
    CASE o.kind = "Value"         -> decode_Value(buf, offset_bits, o)
      [] o.kind = "Field"         -> decode_Field(buf, offset_bits, o)
      [] o.kind = "BitField"      -> decode_BitField(buf, offset_bits, o)
      [] o.kind = "ConstBitField" -> decode_ConstBitField(buf, offset_bits, o)
      [] o.kind = "Packet"        -> decode_Field(buf, offset_bits, o)

\* Returns [result, obj, offset_bits] with obj the fields pack `data`
decode_packet_fields_recursive(IndexV, EndV, buf, offset_bits, data) ==
    IF IndexV = EndV THEN Visited(DecodeReturn(kSuccessCode, data, offset_bits), <<>>)
    ELSE LET r == decode(buf, offset_bits, data[IndexV + 1])
             data1 == [data EXCEPT ![IndexV + 1] = r.obj]
             visit == Visit(IndexV, offset_bits, r)
         IN  IF r.result = kFailureCode
             THEN Visited(DecodeReturn(r.result, data1, r.offset_bits), <<visit>>)
             ELSE LET rest == decode_packet_fields_recursive(IndexV + 1, EndV, buf,
                                                             r.offset_bits, data1)
                  IN  Visited(rest, <<visit>> \o rest.visits)

\* decode(Span<uint8_t const>, size_t&, Packet<FieldT...>&)
decode_Packet(buf, offset_bits, packet) ==
    LET kDataStartOffsetBytes == bytes_to_contain(offset_bits)
        encode_offset_bits == bits_to_contain(kDataStartOffsetBytes)
    IN  IF (kDataStartOffsetBytes + footprint_size_bytes(packet)) > Len(buf)
        THEN DecodeReturn(kFailureCode, packet, offset_bits)
        ELSE LET r == decode_packet_fields_recursive(
                          0, Len(packet.fields), buf, encode_offset_bits, packet.fields)
                 packet1 == [packet EXCEPT !.fields = r.obj]
             IN  IF r.result = kSuccessCode
                 THEN DecodeReturn(r.result, packet1, next_boundary_bit_pos(r.offset_bits))
                 ELSE DecodeReturn(r.result, packet1, offset_bits)

----------------------------------------------------------------------------
(* The bytes a call reads and writes.  A call touches bytes of the buffer   *)
(* (C++ indices from buffer.data()) and bytes of the storage of the values *)
(* it is handed (C++ indices from the address of the value).               *)

NoBytes == [dest |-> {}, src |-> {}]

\* The while loop of encode_bits that carries into the next byte of dest
\* whether or not bits are left to carry
RECURSIVE encode_bits_loop_touches_always_carrying(_, _, _, _)
encode_bits_loop_touches_always_carrying(d, s, offset_bits, size_bits) ==
    IF size_bits = 0 THEN NoBytes
    ELSE
        LET kFrontBitsThatFit == Min(8 - offset_bits, size_bits)
            size1 == size_bits - kFrontBitsThatFit
            kLeftoverBits == IF offset_bits > 0 THEN Min(offset_bits, size1) ELSE 0
            rest == encode_bits_loop_touches_always_carrying(
                        d + 1, s + 1, offset_bits, size1 - kLeftoverBits)
        IN  [dest |-> {d} \cup (IF offset_bits > 0 THEN {d + 1} ELSE {}) \cup rest.dest,
             src |-> {s} \cup rest.src]

\* The bytes the while loop of encode_bits touches: *dest++ |= ... reads *src
\* and writes *dest, and *dest = ... writes the next byte of dest when bits
\* are left to carry
RECURSIVE encode_bits_loop_touches(_, _, _, _)
encode_bits_loop_touches(d, s, offset_bits, size_bits) ==
    IF size_bits = 0 THEN NoBytes
    ELSE
        LET kFrontBitsThatFit == Min(8 - offset_bits, size_bits)
            size1 == size_bits - kFrontBitsThatFit
            carries == offset_bits > 0 /\ size1 > 0
            kLeftoverBits == IF carries THEN Min(offset_bits, size1) ELSE 0
            rest == encode_bits_loop_touches(d + 1, s + 1, offset_bits,
                                             size1 - kLeftoverBits)
        IN  [dest |-> {d} \cup (IF carries THEN {d + 1} ELSE {}) \cup rest.dest,
             src |-> {s} \cup rest.src]

\* The byte of the bit stream that encode_bits / decode_bits start at
start_byte(offset_bits) ==
    LET offset_bytes0 == bytes_to_contain(offset_bits)
    IN  IF (offset_bits % 8) > 0 /\ offset_bytes0 > 0
        THEN offset_bytes0 - 1 ELSE offset_bytes0

encode_bits_touches(offset_bits, size_bits) ==
    encode_bits_loop_touches(start_byte(offset_bits), 0, offset_bits % 8, size_bits)

\* The bytes the while loop of decode_bits touches: *dest = (*src++ ...)
\* reads *src and writes *dest, and *dest |= (*src ...) reads the next byte
\* of src when bits are left to fetch
RECURSIVE decode_bits_loop_touches(_, _, _, _)
decode_bits_loop_touches(d, s, offset_bits, size_bits) ==
    IF size_bits = 0 THEN NoBytes
    ELSE
        LET kFrontBitsThatFit == Min(8 - offset_bits, size_bits)
            size1 == size_bits - kFrontBitsThatFit
            carries == offset_bits > 0 /\ size1 > 0
            kLeftoverBits == IF carries THEN Min(offset_bits, size1) ELSE 0
            rest == decode_bits_loop_touches(d + 1, s + 1, offset_bits,
                                             size1 - kLeftoverBits)
        IN  [dest |-> {d} \cup rest.dest,
             src |-> {s} \cup (IF carries THEN {s + 1} ELSE {}) \cup rest.src]

decode_bits_touches(offset_bits, size_bits) ==
    decode_bits_loop_touches(0, start_byte(offset_bits), offset_bits % 8, size_bits)

\* One byte touched: of the buffer, or of the storage of a value of `bits`
\* bits held in `size` bytes
BufferByte(i) == [of |-> "buffer", index |-> i, bits |-> 0, size |-> 0]
ValueByte(i, o) == [of |-> "value", index |-> i, bits |-> o.bits, size |-> Len(o.value)]

\* The bytes the call fn(o, buf, offset_bits), fn encode or decode, touches
RECURSIVE touches(_, _, _, _)
RECURSIVE fields_touches(_, _, _, _, _)
touches(fn, o, buf, offset_bits) ==
    LET returned == IF fn = "encode" THEN encode(o, buf, offset_bits)
                    ELSE decode(buf, offset_bits, o)
    IN  CASE is_packet(o) ->
               IF (bytes_to_contain(offset_bits) + footprint_size_bytes(o)) > Len(buf)
               THEN {}
               ELSE fields_touches(fn, 0, o.fields, buf,
                                   bits_to_contain(bytes_to_contain(offset_bits)))
          [] o.kind = "ConstBitField" /\ fn = "decode" -> {}
          [] IsBitLevel(o) /\ ~(o.kind = "ConstBitField" /\ fn = "decode") ->
               IF returned.result = kFailureCode THEN {}
               ELSE LET t == IF fn = "encode"
                             THEN encode_bits_touches(offset_bits, kSizeBits(o))
                             ELSE decode_bits_touches(offset_bits, kSizeBits(o))
                        inBuffer == IF fn = "encode" THEN t.dest ELSE t.src
                        inValue == IF fn = "encode" THEN t.src ELSE t.dest
                    IN  { BufferByte(i) : i \in inBuffer } \cup
                        { ValueByte(i, o) : i \in inValue }
          [] OTHER ->
               IF returned.result = kFailureCode THEN {}
               ELSE LET kDataStartByteOffset == bytes_to_contain(offset_bits)
                        kDataFootprintBytes == footprint_size_bytes(o)
                    IN  { BufferByte(kDataStartByteOffset + i) :
                            i \in 0..(kDataFootprintBytes - 1) } \cup
                        { ValueByte(i, o) : i \in 0..(kDataFootprintBytes - 1) }

fields_touches(fn, IndexV, data, buf, offset_bits) ==
    IF IndexV = Len(data) THEN {}
    ELSE LET field == data[IndexV + 1]
             returned == IF fn = "encode" THEN encode(field, buf, offset_bits)
                         ELSE decode(buf, offset_bits, field)
         IN  touches(fn, field, buf, offset_bits) \cup
             ( IF returned.result = kFailureCode THEN {}
               ELSE fields_touches(fn, IndexV + 1, data, buf, returned.offset_bits) )

----------------------------------------------------------------------------
(* Inputs: schemas, values and buffers the caller may hand to the codec *)

\* Widths of the stand-alone BitField / ConstBitField objects
BitWidths == {1, 2, 3, 5, 7, 8, 9, 12, 15, 16, 17, 20, 24, 31, 32, 33, 40, 63, 64}

\* sizeof of the stand-alone arithmetic values
ValueSizes == {1, 2, 4, 8}

\* Two byte patterns a value's storage is drawn from
kPatterns ==
    << <<255, 255, 255, 255, 255, 255, 255, 255>>,
       <<165,  90, 195,  60, 150, 105, 240,  15>> >>

\* A storage with the bits at positions >= SizeBitsV cleared
Truncate(bytes, SizeBitsV) ==
    [i \in DOMAIN bytes |->
        IF 8 * i <= SizeBitsV THEN bytes[i]
        ELSE IF 8 * (i - 1) >= SizeBitsV THEN 0
        ELSE bytes[i] % Pow2(SizeBitsV - 8 * (i - 1))]

\* A storage of `size` bytes for a field of SizeBitsV bits: pattern p, with
\* the bits beyond the width cleared when inRange.  A bool holds 0 or 1.
Storage(p, inRange, SizeBitsV, size) ==
    LET raw == [i \in 1..size |-> kPatterns[p][i]]
    IN  IF SizeBitsV = 1 \/ inRange THEN Truncate(raw, SizeBitsV) ELSE raw

\* A storage whose every byte is `fill` (a bool holds 0 or 1)
Filled(fill, SizeBitsV, size) ==
    [i \in 1..size |-> IF SizeBitsV = 1 THEN fill % 2 ELSE fill]

\* Schema shapes: objects whose storage is all zero
FieldShape(size) == Field([i \in 1..size |-> 0])
BitFieldShape(w) == BitField(w, [i \in 1..smallest_unsigned(w) |-> 0])
ConstBitFieldShape(w) == ConstBitField(w, [i \in 1..smallest_unsigned(w) |-> 0])

\* The shape `o` holding values: field number k of a Packet draws pattern
\* ((p + k) mod 2) + 1
RECURSIVE WithValues(_, _, _)
WithValues(o, p, inRange) ==
    IF is_packet(o)
    THEN [o EXCEPT !.fields =
            [k \in DOMAIN o.fields |-> WithValues(o.fields[k], ((p + k) % 2) + 1, inRange)]]
    ELSE [o EXCEPT !.value =
            IF IsBitLevel(o) THEN Storage(p, inRange, o.bits, Len(o.value))
            ELSE Storage(p, FALSE, 8 * Len(o.value), Len(o.value))]

\* The shape `o` as a decode destination whose storage bytes all hold `fill`
RECURSIVE Prior(_, _)
Prior(o, fill) ==
    IF is_packet(o)
    THEN [o EXCEPT !.fields = [k \in DOMAIN o.fields |-> Prior(o.fields[k], fill)]]
    ELSE [o EXCEPT !.value = Filled(fill, IF IsBitLevel(o) THEN o.bits ELSE 8, Len(o.value))]

\* What a byte of the destination holds before decode: zero (a Packet fresh
\* from its default constructor) or what an earlier value or an
\* uninitialized stand-alone field left there
DstFills == {0, 255}

\* Fields a generated Packet is built from: an aligned value, bit-level
\* fields of which one is a bool, one is wider than a byte and one is
\* narrower than its storage (20 bits in a uint32_t), a reserved field, and
\* a nested Packet that begins with a bit-level field and nests another
NestedPacketShape == Packet(<<BitFieldShape(3), Packet(<<FieldShape(1)>>)>>)

FieldShapes ==
    { FieldShape(2),
      BitFieldShape(1), BitFieldShape(12), BitFieldShape(20),
      ConstBitFieldShape(5),
      NestedPacketShape }

\* All sequences over S of length 1..n
RECURSIVE SeqsUpTo(_, _)
SeqsUpTo(S, n) ==
    IF n = 0 THEN {}
    ELSE LET shorter == SeqsUpTo(S, n - 1)
         IN  { <<x>> : x \in S } \cup shorter \cup
             { Append(s, x) : s \in { t \in shorter : Len(t) = n - 1 }, x \in S }

PacketShapes == { Packet(s) : s \in SeqsUpTo(FieldShapes, MaxFields) }

\* The values a generated object holds: pattern 1 as it is (bits beyond a
\* BitField's width set), or pattern 2 within the width
ValueChoices == { <<1, FALSE>>, <<2, TRUE>> }

PacketObjects ==
    { WithValues(s, v[1], v[2]) : s \in PacketShapes, v \in ValueChoices }

SingleShapes ==
    { Value([i \in 1..n |-> 0]) : n \in ValueSizes } \cup
    { FieldShape(n) : n \in ValueSizes } \cup
    { BitFieldShape(w) : w \in BitWidths } \cup
    { ConstBitFieldShape(w) : w \in BitWidths }

SingleObjects ==
    { WithValues(s, p, inRange) : s \in SingleShapes, p \in {1, 2}, inRange \in BOOLEAN }

\* static_assert(BitSizeV <= 64U): the widest BitField
kMaxBitFieldBits == 64

BitObjects ==
    { WithValues(s, v[1], v[2]) :
        s \in { BitFieldShape(w) : w \in 1..kMaxBitFieldBits } \cup
              { ConstBitFieldShape(w) : w \in 1..kMaxBitFieldBits },
        v \in ValueChoices }

\* Entry cursors handed to a Packet-level call: aligned and not
PacketCursors == {0, 3}

\* Bytes a call on `o` at cursor c needs the buffer to hold
Need(o, c) ==
    IF IsBitLevel(o) THEN bytes_to_contain(c + kSizeBits(o))
    ELSE bytes_to_contain(c) + footprint_size_bytes(o)

\* Buffer contents before the call: all zero, all ones, or ones in the bits
\* below the cursor (what earlier fields left there) and zero from it on
BufferOf(len, fill, c) ==
    [i \in 1..len |->
        CASE fill = "zero" -> 0
          [] fill = "ones" -> 255
          [] fill = "below" ->
                IF 8 * i <= c THEN 255
                ELSE IF 8 * (i - 1) >= c THEN 0
                ELSE Pow2(c - 8 * (i - 1)) - 1]

\* Buffers handed to a single-field call: one byte short, exact, one spare
Buffers(o, c) ==
    { BufferOf(len, fill, c) :
        len \in { n \in (Need(o, c) - 1)..(Need(o, c) + 1) : n >= 0 },
        fill \in {"zero", "ones", "below"} }

\* Buffers handed to a Packet-level call: one byte short and dirty, exact
\* and cleared, one spare byte and dirty
PacketBuffers(o, c) ==
    { BufferOf(Need(o, c) - 1, "ones", c),
      BufferOf(Need(o, c), "zero", c),
      BufferOf(Need(o, c) + 1, "ones", c) }

----------------------------------------------------------------------------
(* The caller: constructs an object and a buffer, then encodes, or decodes, *)
(* or encodes, takes the cursor back to where the encoding began and       *)
(* decodes what was written.                                               *)

NoCall == [op |-> "none", cursor |-> 0, buffer |-> <<>>, dst |-> <<>>,
           result |-> "none"]

\* No Egress or Ingress call was made
NoSession == [op |-> "none"]
NoTimer == [op |-> "none"]
NoSpan == [op |-> "none"]

InitWith(o, c, b) ==
    /\ obj = o
    /\ dst = Prior(o, 0)
    /\ buffer = b
    /\ cursor = c
    /\ result = "none"
    /\ phase = "ready"
    /\ entry = NoCall
    /\ encoded = NoCall
    /\ visits = <<>>
    /\ session = NoSession
    /\ timer = NoTimer
    /\ spans = NoSpan

InitField ==
    \E o \in SingleObjects : \E c \in 0..MaxCursor : \E b \in Buffers(o, c) :
        InitWith(o, c, b)

InitPacket ==
    \E o \in PacketObjects : \E c \in PacketCursors : \E b \in PacketBuffers(o, c) :
        InitWith(o, c, b)

\* Every BitField and ConstBitField width there is, on its own
InitBits ==
    \E o \in BitObjects : \E c \in 0..MaxCursor : \E b \in Buffers(o, c) :
        InitWith(o, c, b)

Init == InitField \/ InitPacket

\* result = encode(obj, buffer, cursor)
Encode ==
    /\ phase = "ready"
    /\ LET r == encode(obj, buffer, cursor)
           call == [op |-> "encode", cursor |-> cursor, buffer |-> buffer,
                    dst |-> <<>>, result |-> r.result]
       IN  /\ buffer' = r.buffer
           /\ cursor' = r.offset_bits
           /\ result' = r.result
           /\ entry' = call
           /\ encoded' = call
    /\ phase' = "encoded"
    /\ UNCHANGED <<obj, dst, visits, session, timer, spans>>

\* The caller takes the cursor back to where the encoding began
Rewind ==
    /\ phase = "encoded"
    /\ cursor' = encoded.cursor
    /\ phase' = "rewound"
    /\ UNCHANGED <<obj, dst, buffer, result, entry, encoded, visits, session, timer, spans>>

\* result = decode(buffer, cursor, dst), dst an object of obj's schema
Decode ==
    /\ phase \in {"ready", "rewound"}
    /\ \E fill \in DstFills :
         LET prior == Prior(obj, fill)
             r == decode(buffer, cursor, prior)
         IN  /\ dst' = r.obj
             /\ cursor' = r.offset_bits
             /\ result' = r.result
             /\ entry' = [op |-> "decode", cursor |-> cursor, buffer |-> buffer,
                          dst |-> prior, result |-> r.result]
    /\ phase' = "decoded"
    /\ UNCHANGED <<obj, buffer, encoded, visits, session, timer, spans>>

Next == Encode \/ Rewind \/ Decode

Spec == Init /\ [][Next]_vars

SpecField == InitField /\ [][Next]_vars

SpecPacket == InitPacket /\ [][Next]_vars

SpecBits == InitBits /\ [][Next]_vars

----------------------------------------------------------------------------
(* The caller that encodes twice: encodes, takes the cursor back to where  *)
(* the encoding began and encodes the same object into the same buffer.    *)

\* result = encode(obj, buffer, cursor), once more
EncodeAgain ==
    /\ phase = "rewound"
    /\ LET r == encode(obj, buffer, cursor)
       IN  /\ buffer' = r.buffer
           /\ cursor' = r.offset_bits
           /\ result' = r.result
           /\ entry' = [op |-> "encode", cursor |-> cursor, buffer |-> buffer,
                        dst |-> <<>>, result |-> r.result]
    /\ phase' = "encoded again"
    /\ UNCHANGED <<obj, dst, encoded, visits, session, timer, spans>>

NextTwice == Encode \/ Rewind \/ EncodeAgain

SpecTwice == InitPacket /\ [][NextTwice]_vars

----------------------------------------------------------------------------
(* The caller of the field-by-field walk itself: Do of                     *)
(* encode_packet_fields_recursive / decode_packet_fields_recursive from    *)
(* field 0 to the last, on the caller's own cursor and with no size guard  *)
(* before it.                                                              *)

\* result = encode_packet_fields_recursive<0, kNumFields, PacketT>::Do(
\*              buffer, cursor, obj.fields)
EncodeFields ==
    /\ phase = "ready"
    /\ LET r == encode_packet_fields_recursive(0, Len(obj.fields), buffer, cursor,
                                               obj.fields)
       IN  /\ buffer' = r.buffer
           /\ cursor' = r.offset_bits
           /\ result' = r.result
           /\ visits' = r.visits
           /\ entry' = [op |-> "encode_fields", cursor |-> cursor, buffer |-> buffer,
                        dst |-> <<>>, result |-> r.result]
    /\ phase' = "walked"
    /\ UNCHANGED <<obj, dst, encoded, session, timer, spans>>

\* result = decode_packet_fields_recursive<0, kNumFields, PacketT>::Do(
\*              buffer, cursor, dst.fields)
DecodeFields ==
    /\ phase = "ready"
    /\ \E fill \in DstFills :
         LET prior == Prior(obj, fill)
             r == decode_packet_fields_recursive(0, Len(obj.fields), buffer, cursor,
                                                 prior.fields)
         IN  /\ dst' = [prior EXCEPT !.fields = r.obj]
             /\ cursor' = r.offset_bits
             /\ result' = r.result
             /\ visits' = r.visits
             /\ entry' = [op |-> "decode_fields", cursor |-> cursor, buffer |-> buffer,
                          dst |-> prior, result |-> r.result]
    /\ phase' = "walked"
    /\ UNCHANGED <<obj, buffer, encoded, session, timer, spans>>

NextFields == EncodeFields \/ DecodeFields

SpecFields == InitPacket /\ [][NextFields]_vars

----------------------------------------------------------------------------
(* The caller that streams: one buffer and one cursor handed to a run of   *)
(* encode and decode calls, each call carrying on from the cursor the one  *)
(* before it left, whether that one succeeded or failed.                   *)

\* Largest number of calls of one run
MaxCalls == 3

\* The objects a run hands over: an aligned value, a bit-level field, a
\* reserved field and a Packet
SequenceObjects ==
    { WithValues(s, 1, FALSE) :
        s \in { Value(<<0, 0>>), BitFieldShape(3), ConstBitFieldShape(5),
                NestedPacketShape } }

\* Sizes of the buffer of a run: exhausted by the first calls, or not
SequenceBufferSizes == {1, 4}

InitSequence ==
    \E c \in PacketCursors : \E n \in SequenceBufferSizes :
        \E fill \in {"zero", "ones"} :
            InitWith(WithValues(Value(<<0, 0>>), 1, FALSE), c, BufferOf(n, fill, c))

\* One call of a run: what was called, the cursor it was handed, the cursor
\* it left and what it returned
Called(fn, offset_bits, ret) ==
    [op |-> fn, from |-> offset_bits, to |-> ret.offset_bits, result |-> ret.result]

\* result = encode(o, buffer, cursor), the next call of the run
EncodeNext ==
    /\ phase \in {"ready", "streaming"}
    /\ Len(visits) < MaxCalls
    /\ \E o \in SequenceObjects :
         LET r == encode(o, buffer, cursor)
             call == [op |-> "encode", cursor |-> cursor, buffer |-> buffer,
                      dst |-> <<>>, result |-> r.result]
         IN  /\ obj' = o
             /\ buffer' = r.buffer
             /\ cursor' = r.offset_bits
             /\ result' = r.result
             /\ entry' = call
             /\ encoded' = call
             /\ visits' = Append(visits, Called("encode", cursor, r))
    /\ phase' = "streaming"
    /\ UNCHANGED <<dst, session, timer, spans>>

\* result = decode(buffer, cursor, o), the next call of the run
DecodeNext ==
    /\ phase \in {"ready", "streaming"}
    /\ Len(visits) < MaxCalls
    /\ \E o \in SequenceObjects :
         LET prior == Prior(o, 0)
             r == decode(buffer, cursor, prior)
         IN  /\ obj' = o
             /\ dst' = r.obj
             /\ cursor' = r.offset_bits
             /\ result' = r.result
             /\ entry' = [op |-> "decode", cursor |-> cursor, buffer |-> buffer,
                          dst |-> prior, result |-> r.result]
             /\ visits' = Append(visits, Called("decode", cursor, r))
    /\ phase' = "streaming"
    /\ UNCHANGED <<buffer, encoded, session, timer, spans>>

NextSequence == EncodeNext \/ DecodeNext

SpecSequence == InitSequence /\ [][NextSequence]_vars

----------------------------------------------------------------------------
(* The caller of the Memory math: rounds a bit position up to its byte     *)
(* boundary, and the result once more.                                     *)

\* Bit positions at the low end and at the high end of size_t
AlignInputs == (0..MaxAlignInput) \cup ((SizeMax - MaxAlignInput)..SizeMax)

InitAlign ==
    \E x \in AlignInputs :
        InitWith(WithValues(Value(<<0, 0>>), 1, FALSE), x, <<>>)

\* cursor = math::next_boundary_bit_pos(cursor)
Align ==
    /\ phase \in {"ready", "aligned"}
    /\ LET ret == [offset_bits |-> next_boundary_bit_pos(cursor), result |-> kSuccessCode]
       IN  /\ cursor' = ret.offset_bits
           /\ visits' = Append(visits, Called("next_boundary_bit_pos", cursor, ret))
    /\ phase' = IF phase = "ready" THEN "aligned" ELSE "realigned"
    /\ UNCHANGED <<obj, dst, buffer, result, entry, encoded, session, timer, spans>>

NextAlign == Align

SpecAlign == InitAlign /\ [][NextAlign]_vars

----------------------------------------------------------------------------
(* The result envelope: EnumeratedResult<EnumT, SuccessV, FailureV> holds  *)
(* one code of EnumT and knows which code is success and which is failure. *)

EnumeratedResult(SuccessV, FailureV, code) ==
    [m_code |-> code, kSuccessCode |-> SuccessV, kFailureCode |-> FailureV]

\* IsFailure that takes every code but the success code for failure
IsFailure_not_success(r) == r.m_code # r.kSuccessCode

IsFailure(r) == r.m_code = r.kFailureCode

IsSuccess(r) == r.m_code = r.kSuccessCode

\* enum class BinaryResultCode { kFailed, kSucceeded }
BinaryResultCode == {kFailureCode, kSuccessCode}

BinaryResult(code) == EnumeratedResult(kSuccessCode, kFailureCode, code)

\* BinaryResult::Success() / BinaryResult::Failure()
Success == BinaryResult(kSuccessCode)
Failure == BinaryResult(kFailureCode)

\* enum class Transference::ResultCode
kFailed == "kFailed"
kComplete == "kComplete"
kPending == "kPending"
ResultCode == {kFailed, kComplete, kPending}

\* Transference::Result
TransferenceResult(code) == EnumeratedResult(kComplete, kFailed, code)

\* Transference::Transference(Span data)
Transference(data) == [m_result |-> TransferenceResult(kPending), m_data |-> data]

GetData(t) == t.m_data
GetResult(t) == t.m_result
SetResult(t, r) == [t EXCEPT !.m_result = r]

----------------------------------------------------------------------------
(* Egress<T> and Ingress<T>: the adapters between a value and a session    *)
(* buffer.  The session buffer (Outbound / Inbound) is the environment: it *)
(* reports how many bytes it has, and answers Post / Request.              *)

\* Largest timeout (in microseconds) a caller hands to Put / Get
MaxTimeout == 3
\* Largest reading (in microseconds) of platform::Clock
MaxClock == 3

\* One call the session buffer received
Call(fn, span, timeout, ret) ==
    [fn |-> fn, span |-> span, timeout |-> timeout, ret |-> ret]

\* std::memset(encoded_buffer, 0U, kDataSizeBytes)
ZeroBuffer(kDataSizeBytes) == [i \in 1..kDataSizeBytes |-> 0]

PutReturn(r, calls, readings, buf, bits) ==
    [result |-> r, calls |-> calls, clock |-> readings, buffer |-> buf,
     offset_bits |-> bits]

\* Put(data, duration) that hands Post the duration it was given
Egress_Put_unrefined(m_buffer, clock, data, duration) ==
    LET kDataSizeBytes == footprint_size_bytes(data)
        query == Call("OutputBytesAvailable", <<>>, 0, m_buffer.available)
        e == encode(data, ZeroBuffer(kDataSizeBytes), 0)
        post == Call("Post", e.buffer, duration, m_buffer.ret)
    IN  IF m_buffer.available < kDataSizeBytes
        THEN PutReturn(kFailureCode, <<query>>, <<>>, <<>>, 0)
        ELSE PutReturn(IF IsSuccess(BinaryResult(m_buffer.ret))
                       THEN kSuccessCode ELSE kFailureCode,
                       <<query, post>>, <<clock[1], clock[2]>>, e.buffer, e.offset_bits)

\* Put(data, duration) that posts before it asks for room
Egress_Put_no_preflight(m_buffer, clock, data, duration) ==
    LET kDataSizeBytes == footprint_size_bytes(data)
        query == Call("OutputBytesAvailable", <<>>, 0, m_buffer.available)
        e == encode(data, ZeroBuffer(kDataSizeBytes), 0)
        post == Call("Post", e.buffer, duration, m_buffer.ret)
    IN  PutReturn(IF m_buffer.available < kDataSizeBytes
                     \/ ~IsSuccess(BinaryResult(m_buffer.ret))
                  THEN kFailureCode ELSE kSuccessCode,
                  <<post, query>>, <<clock[1], clock[2]>>, e.buffer, e.offset_bits)

\* Put(data, duration) that returns success once the value is posted
Egress_Put_ignores_post(m_buffer, clock, data, duration) ==
    LET kDataSizeBytes == footprint_size_bytes(data)
        query == Call("OutputBytesAvailable", <<>>, 0, m_buffer.available)
        e == encode(data, ZeroBuffer(kDataSizeBytes), 0)
        post == Call("Post", e.buffer, 0, m_buffer.ret)
    IN  IF m_buffer.available < kDataSizeBytes
        THEN PutReturn(kFailureCode, <<query>>, <<>>, <<>>, 0)
        ELSE PutReturn(kSuccessCode, <<query, post>>, <<clock[1], clock[2]>>,
                       e.buffer, e.offset_bits)

\* Egress<T>::Put(value_type const& data, std::chrono::microseconds duration)
\* on the session buffer m_buffer, with `clock` the readings that
\* platform::Clock::now() gives
Egress_Put(m_buffer, clock, data, duration) ==
    LET kDataSizeBytes == footprint_size_bytes(data)
        query == Call("OutputBytesAvailable", <<>>, 0, m_buffer.available)
    IN  IF m_buffer.available < kDataSizeBytes
        THEN PutReturn(kFailureCode, <<query>>, <<>>, <<>>, 0)
        ELSE
          LET start_us == clock[1]
              e == encode(data, ZeroBuffer(kDataSizeBytes), 0)
          IN  IF ~IsSuccess(BinaryResult(e.result))
              THEN PutReturn(e.result, <<query>>, <<start_us>>, e.buffer, e.offset_bits)
              ELSE
                LET encoding_end_us == clock[2]
                    encoding_duration == encoding_end_us - start_us
                    duration1 == IF encoding_duration > duration THEN 0
                                 ELSE duration - encoding_duration
                    post == Call("Post", e.buffer, duration1, m_buffer.ret)
                IN  PutReturn(IF IsSuccess(BinaryResult(m_buffer.ret))
                              THEN kSuccessCode ELSE kFailureCode,
                              <<query, post>>, <<start_us, encoding_end_us>>,
                              e.buffer, e.offset_bits)

\* Egress<T>::Put(value_type const& data)
Egress_Put_data(m_buffer, clock, data) == Egress_Put(m_buffer, clock, data, 0)

GetReturn(r, calls, o, buf, bits) ==
    [result |-> r, calls |-> calls, obj |-> o, buffer |-> buf, offset_bits |-> bits]

\* Get(data, timeout) that asks the session to wait no time at all
Ingress_Get_no_wait(m_buffer, data, timeout) ==
    LET kDataSizeBytes == footprint_size_bytes(data)
        query == Call("InputBytesAvailable", <<>>, 0, m_buffer.available)
        request == Call("Request", ZeroBuffer(kDataSizeBytes), 0, m_buffer.ret)
        d == decode(m_buffer.rx, 0, data)
    IN  IF m_buffer.available < kDataSizeBytes
        THEN GetReturn(kFailureCode, <<query>>, data, <<>>, 0)
        ELSE IF IsFailure(BinaryResult(m_buffer.ret))
        THEN GetReturn(kFailureCode, <<query, request>>, data, m_buffer.rx, 0)
        ELSE GetReturn(d.result, <<query, request>>, d.obj, m_buffer.rx, d.offset_bits)

\* Get(data, timeout) that decodes whatever the request left in the buffer
Ingress_Get_decodes_anyway(m_buffer, data, timeout) ==
    LET kDataSizeBytes == footprint_size_bytes(data)
        query == Call("InputBytesAvailable", <<>>, 0, m_buffer.available)
        request == Call("Request", ZeroBuffer(kDataSizeBytes), timeout, m_buffer.ret)
        d == decode(m_buffer.rx, 0, data)
    IN  IF m_buffer.available < kDataSizeBytes
        THEN GetReturn(kFailureCode, <<query>>, data, <<>>, 0)
        ELSE GetReturn(IF IsFailure(BinaryResult(m_buffer.ret)) THEN kFailureCode
                       ELSE d.result,
                       <<query, request>>, d.obj, m_buffer.rx, d.offset_bits)

\* Ingress<T>::Get(value_type& data, std::chrono::microseconds timeout) on
\* the session buffer m_buffer, which answers Request by leaving m_buffer.rx
\* in the span and returning m_buffer.ret
Ingress_Get(m_buffer, data, timeout) ==
    LET kDataSizeBytes == footprint_size_bytes(data)
        query == Call("InputBytesAvailable", <<>>, 0, m_buffer.available)
    IN  IF m_buffer.available < kDataSizeBytes
        THEN GetReturn(kFailureCode, <<query>>, data, <<>>, 0)
        ELSE
          LET encoded_buffer == ZeroBuffer(kDataSizeBytes)
              request == Call("Request", encoded_buffer, timeout, m_buffer.ret)
              request_result == BinaryResult(m_buffer.ret)
              filled == m_buffer.rx
          IN  IF IsFailure(request_result)
              THEN GetReturn(kFailureCode, <<query, request>>, data, filled, 0)
              ELSE
                LET d == decode(filled, 0, data)
                IN  GetReturn(IF IsSuccess(BinaryResult(d.result))
                              THEN kSuccessCode ELSE kFailureCode,
                              <<query, request>>, d.obj, filled, d.offset_bits)

\* Ingress<T>::Get(value_type& data)
Ingress_Get_data(m_buffer, data) == Ingress_Get(m_buffer, data, 0)

\* The types T of the generated Egress<T> / Ingress<T>: an int (as the
\* repository's tests use), an aligned Field, bit-level fields on their own,
\* a Packet of bit-level and aligned fields, and a Packet with a nested one
SessionShapes ==
    { Value([i \in 1..4 |-> 0]), FieldShape(2),
      BitFieldShape(12), BitFieldShape(20), ConstBitFieldShape(5),
      Packet(<<BitFieldShape(12), ConstBitFieldShape(5), FieldShape(2)>>),
      NestedPacketShape }

SessionObjects ==
    { WithValues(s, v[1], v[2]) : s \in SessionShapes, v \in ValueChoices }

\* What the session buffer reports to have: nothing, one byte too few,
\* exactly the footprint, more
Availabilities(o) ==
    { 0, footprint_size_bytes(o) - 1, footprint_size_bytes(o),
      footprint_size_bytes(o) + 1 }

\* What a Request leaves in the span: nothing (the zeroes it was handed),
\* the encoding of obj, or bytes of ones
RxContents(o) ==
    { ZeroBuffer(footprint_size_bytes(o)),
      encode(o, ZeroBuffer(footprint_size_bytes(o)), 0).buffer,
      [i \in 1..footprint_size_bytes(o) |-> 255] }

InitSession ==
    \E o \in SessionObjects :
        /\ obj = o
        /\ dst = Prior(o, 0)
        /\ buffer = <<>>
        /\ cursor = 0
        /\ result = "none"
        /\ phase = "ready"
        /\ entry = NoCall
        /\ encoded = NoCall
        /\ visits = <<>>
        /\ session = NoSession
        /\ timer = NoTimer
        /\ spans = NoSpan

\* result = egress.Put(obj) or egress.Put(obj, duration); buffer and cursor
\* show Put's encoded_buffer and bits_encoded as it returned
Put ==
    /\ phase = "ready"
    /\ \E overload \in {"Put(data)", "Put(data, duration)"} :
       \E duration \in 0..MaxTimeout :
       \E available \in Availabilities(obj) :
       \E ret \in BinaryResultCode :
       \E start_us \in 0..MaxClock : \E encoding_end_us \in 0..MaxClock :
         LET m_buffer == [available |-> available, ret |-> ret]
             clock == <<start_us, encoding_end_us>>
             r == IF overload = "Put(data)" THEN Egress_Put_data(m_buffer, clock, obj)
                  ELSE Egress_Put(m_buffer, clock, obj, duration)
         IN  /\ overload = "Put(data)" => duration = 0
             /\ result' = r.result
             /\ buffer' = r.buffer
             /\ cursor' = r.offset_bits
             /\ session' = [op |-> "Put", overload |-> overload, timeout |-> duration,
                            available |-> available, calls |-> r.calls,
                            clock |-> r.clock, transference |-> <<>>, fresh |-> FALSE]
    /\ phase' = "returned"
    /\ UNCHANGED <<obj, dst, entry, encoded, visits, timer, spans>>

\* result = ingress.Get(dst) or ingress.Get(dst, timeout)
Get ==
    /\ phase = "ready"
    /\ \E overload \in {"Get(data)", "Get(data, timeout)"} :
       \E timeout \in 0..MaxTimeout :
       \E available \in Availabilities(obj) :
       \E ret \in BinaryResultCode :
       \E rx \in RxContents(obj) :
       \E fill \in DstFills :
         LET m_buffer == [available |-> available, ret |-> ret, rx |-> rx]
             prior == Prior(obj, fill)
             r == IF overload = "Get(data)" THEN Ingress_Get_data(m_buffer, prior)
                  ELSE Ingress_Get(m_buffer, prior, timeout)
         IN  /\ overload = "Get(data)" => timeout = 0
             /\ result' = r.result
             /\ dst' = r.obj
             /\ buffer' = r.buffer
             /\ cursor' = r.offset_bits
             /\ entry' = [op |-> "Get", cursor |-> 0, buffer |-> r.buffer,
                          dst |-> prior, result |-> r.result]
             /\ session' = [op |-> "Get", overload |-> overload, timeout |-> timeout,
                            available |-> available, calls |-> r.calls,
                            clock |-> <<>>, transference |-> <<>>, fresh |-> FALSE]
    /\ phase' = "returned"
    /\ UNCHANGED <<obj, encoded, visits, timer, spans>>

\* The session buffer packs the span it was handed into a Transference;
\* session.transference holds it once there is one
NewTransference ==
    /\ phase = "returned"
    /\ session.transference = <<>>
    /\ Len(session.calls) = 2
    /\ session' = [session EXCEPT !.transference = <<Transference(session.calls[2].span)>>,
                                  !.fresh = TRUE]
    /\ UNCHANGED <<obj, dst, buffer, cursor, result, phase, entry, encoded, visits, timer, spans>>

\* transference.SetResult(Result {code})
SettleTransference ==
    /\ phase = "returned"
    /\ session.transference # <<>>
    /\ session.fresh
    /\ \E code \in ResultCode :
         session' = [session EXCEPT
                        !.transference = <<SetResult(@[1], TransferenceResult(code))>>,
                        !.fresh = FALSE]
    /\ UNCHANGED <<obj, dst, buffer, cursor, result, phase, entry, encoded, visits, timer, spans>>

NextSession == Put \/ Get \/ NewTransference \/ SettleTransference

SpecSession == InitSession /\ [][NextSession]_vars

----------------------------------------------------------------------------
(* BasicTimer<Clock> over platform::Clock.  Time points are counts of the  *)
(* clock's period (a microsecond) since its epoch; m_duration_ns and the   *)
(* duration handed to Set are counts of nanoseconds.  Every Clock::now()   *)
(* of a call is a reading of its own; between calls the clock may have     *)
(* been set to any time, within a call it does not go back.                *)

\* Largest reading of the clock
MaxTicks == 5
\* Largest duration, in periods of the clock, handed to Set
MaxPeriod == 2

\* std::chrono::nanoseconds in one Clock::duration (microseconds)
kNanosPerTick == 1000

Ticks == 0..MaxTicks

\* Durations handed to Set, in nanoseconds: whole periods and halves
SetDurations == { k * (kNanosPerTick \div 2) : k \in 0..(2 * MaxPeriod) }

\* std::chrono::duration_cast<Duration>(duration), held in m_duration_ns
duration_cast(duration_ns) == (duration_ns \div kNanosPerTick) * kNanosPerTick

\* std::chrono::time_point_cast<Duration>(time point in nanoseconds)
time_point_cast(time_ns) == time_ns \div kNanosPerTick

BasicTimer(duration_ns, expire_time) ==
    [m_duration_ns |-> duration_ns, m_expire_time |-> expire_time]

\* bool IsExpired(), Clock::now() reading `now`
IsExpired(t, now) == now >= t.m_expire_time

\* bool IsOverExpired(), Clock::now() reading `now`
IsOverExpired(t, now) ==
    LET overage_ns == (now - t.m_expire_time) * kNanosPerTick
    IN  overage_ns > t.m_duration_ns

\* Reset that always starts the new period at the clock's reading
Reset_from_now(t, now) ==
    [t EXCEPT !.m_expire_time =
        time_point_cast(now[Len(now)] * kNanosPerTick + t.m_duration_ns)]

\* void Reset(); `now` are the readings of the clock in the order taken:
\* by IsExpired, by IsOverExpired when IsExpired() held, and by Reset itself
\* when the new period starts at the current time
Reset(t, now) ==
    LET reset_start == IF ~IsExpired(t, now[1]) THEN now[2]
                       ELSE IF IsOverExpired(t, now[2]) THEN now[3]
                       ELSE t.m_expire_time
    IN  [t EXCEPT !.m_expire_time =
            time_point_cast(reset_start * kNanosPerTick + t.m_duration_ns)]

\* The readings a Reset of t can take: as many as the conditions it
\* evaluates ask for, none of them below the one before it
ResetReadings(t) ==
    { <<a, c>> : a \in { x \in Ticks : ~IsExpired(t, x) },
                 c \in Ticks } \cup
    { <<a, b>> : a \in { x \in Ticks : IsExpired(t, x) },
                 b \in { x \in Ticks : ~IsOverExpired(t, x) } } \cup
    { <<a, b, c>> : a \in { x \in Ticks : IsExpired(t, x) },
                    b \in { x \in Ticks : IsOverExpired(t, x) },
                    c \in Ticks }

NeverBack(now) == \A i \in DOMAIN now : i > 1 => now[i - 1] <= now[i]

\* void Set(duration)
Set(t, duration_ns, now) ==
    Reset([t EXCEPT !.m_duration_ns = duration_cast(duration_ns)], now)

\* A call on the timer: the timer before it, what it was handed, the clock
\* readings it took and what it returned
TimerCall(t, fn, before, arg, readings, ret) ==
    [m_duration_ns |-> t.m_duration_ns, m_expire_time |-> t.m_expire_time,
     op |-> fn, before |-> before, arg |-> arg, readings |-> readings, ret |-> ret]

\* BasicTimer<Clock> timer; m_expire_time is the epoch, m_duration_ns is zero
\* when the object was value-initialized and indeterminate otherwise
InitTimer ==
    /\ obj = WithValues(Value(<<0, 0>>), 1, FALSE)
    /\ dst = Prior(obj, 0)
    /\ buffer = <<>>
    /\ cursor = 0
    /\ result = "none"
    /\ phase = "ready"
    /\ entry = NoCall
    /\ encoded = NoCall
    /\ visits = <<>>
    /\ session = NoSession
    /\ spans = NoSpan
    /\ \E d \in 0..MaxPeriod :
         LET t == BasicTimer(d * kNanosPerTick, 0)
         IN  timer = TimerCall(t, "BasicTimer", t, 0, <<>>, "none")

TimerOf == BasicTimer(timer.m_duration_ns, timer.m_expire_time)

\* timer.Set(duration)
CallSet ==
    /\ \E duration \in SetDurations :
         LET armed == [TimerOf EXCEPT !.m_duration_ns = duration_cast(duration)]
         IN  \E now \in { r \in ResetReadings(armed) : NeverBack(r) } :
                timer' = TimerCall(Set(TimerOf, duration, now), "Set", TimerOf,
                                   duration, now, "none")
    /\ UNCHANGED <<obj, dst, buffer, cursor, result, phase, entry, encoded, visits,
                   session, spans>>

\* timer.Reset()
CallReset ==
    /\ \E now \in { r \in ResetReadings(TimerOf) : NeverBack(r) } :
         timer' = TimerCall(Reset(TimerOf, now), "Reset", TimerOf, 0, now, "none")
    /\ UNCHANGED <<obj, dst, buffer, cursor, result, phase, entry, encoded, visits,
                   session, spans>>

\* timer.IsExpired()
CallIsExpired ==
    /\ \E now \in Ticks :
         timer' = TimerCall(TimerOf, "IsExpired", TimerOf, 0, <<now>>,
                            IsExpired(TimerOf, now))
    /\ UNCHANGED <<obj, dst, buffer, cursor, result, phase, entry, encoded, visits,
                   session, spans>>

\* timer.IsOverExpired()
CallIsOverExpired ==
    /\ \E now \in Ticks :
         timer' = TimerCall(TimerOf, "IsOverExpired", TimerOf, 0, <<now>>,
                            IsOverExpired(TimerOf, now))
    /\ UNCHANGED <<obj, dst, buffer, cursor, result, phase, entry, encoded, visits,
                   session, spans>>

NextTimer == CallSet \/ CallReset \/ CallIsExpired \/ CallIsOverExpired

SpecTimer == InitTimer /\ [][NextTimer]_vars

----------------------------------------------------------------------------
(* Span<T>: a pointer m_data, here the index of its first element in the   *)
(* storage it views, and a count m_count of elements, both of size_t.      *)

\* Largest count of a parent Span, and how far from either end of size_t
\* the arguments of subspan lie
MaxSpan == 3

\* constexpr static size_type npos {std::numeric_limits<size_type>::max()}
npos == SizeMax

Span(start, count) == [m_data |-> start, m_count |-> count]

\* Span::subspan(start, count), start + count and m_count - start in size_t
subspan(this, start, count) ==
    LET count1 == IF (count = npos) \/ (((start + count) % SizeMod) > this.m_count)
                  THEN (this.m_count - start) % SizeMod
                  ELSE count
    IN  Span(this.m_data + start, count1)

\* Arguments handed to subspan: small ones and ones next to the end of size_t
SubspanArguments == (0..(MaxSpan + 1)) \cup ((SizeMax - MaxSpan)..SizeMax)

\* A Span and the last subspan taken of it
Subspanned(this, fn, start, count, ret) ==
    [m_data |-> this.m_data, m_count |-> this.m_count,
     op |-> fn, start |-> start, count |-> count, ret |-> ret]

InitSpan ==
    /\ obj = WithValues(Value(<<0, 0>>), 1, FALSE)
    /\ dst = Prior(obj, 0)
    /\ buffer = <<>>
    /\ cursor = 0
    /\ result = "none"
    /\ phase = "ready"
    /\ entry = NoCall
    /\ encoded = NoCall
    /\ visits = <<>>
    /\ session = NoSession
    /\ timer = NoTimer
    /\ \E n \in 0..MaxSpan :
         spans = Subspanned(Span(0, n), "Span", 0, 0, Span(0, n))

\* part = span.subspan(start) or span.subspan(start, count)
Subspan ==
    /\ \E start \in SubspanArguments : \E count \in SubspanArguments :
         LET this == Span(spans.m_data, spans.m_count)
         IN  spans' = Subspanned(this, "subspan", start, count,
                                 subspan(this, start, count))
    /\ UNCHANGED <<obj, dst, buffer, cursor, result, phase, entry, encoded, visits,
                   session, timer>>

NextSpan == Subspan

SpecSpan == InitSpan /\ [][NextSpan]_vars

----------------------------------------------------------------------------
(* Vocabulary of the properties *)

Succeeded == result = kSuccessCode
Failed == result = kFailureCode

EncodeReturned == phase = "encoded"
DecodeReturned == phase = "decoded"
\* decode returned, of the buffer the caller encoded obj into, from the
\* cursor that encoding began at
RoundTripReturned == phase = "decoded" /\ encoded.op = "encode"

IsZero(bytes) == \A i \in DOMAIN bytes : bytes[i] = 0

\* Every BitField / ConstBitField of `o` holds a value of its width
RECURSIVE InRange(_)
InRange(o) ==
    IF is_packet(o) THEN \A k \in DOMAIN o.fields : InRange(o.fields[k])
    ELSE IsBitLevel(o) => Truncate(o.value, o.bits) = o.value

\* Every non-const field of `a` equals the corresponding field of `b`,
\* through nested Packets
RECURSIVE FieldsMatch(_, _)
FieldsMatch(a, b) ==
    IF is_packet(a)
    THEN \A k \in DOMAIN a.fields : FieldsMatch(a.fields[k], b.fields[k])
    ELSE a.kind = "ConstBitField" \/ a.value = b.value

----------------------------------------------------------------------------
(* C1.  Round trip: encoding a Packet value v from cursor 0 into a zero-   *)
(* filled buffer of size_in_bytes(S) bytes and decoding that buffer from   *)
(* cursor 0 into a packet of schema S both succeed, and every non-const    *)
(* field of the decoded packet equals the corresponding field of v.        *)
C1_RoundTrip ==
    ( /\ RoundTripReturned
      /\ is_packet(obj)
      /\ InRange(obj)
      /\ encoded.cursor = 0
      /\ IsZero(encoded.buffer)
      /\ Len(encoded.buffer) = footprint_size_bytes(obj)
      /\ entry.cursor = 0 )
    => ( /\ encoded.result = kSuccessCode
         /\ Succeeded
         /\ FieldsMatch(dst, obj) )

----------------------------------------------------------------------------
(* C2.  Size agreement: a successful encode of a Packet that starts from   *)
(* cursor 0 leaves the cursor equal to the schema-time constant            *)
(* Packet::kSizeBits, and no buffer byte at index >= size_in_bytes is      *)
(* written.                                                                *)
C2_SizeAgreement ==
    ( EncodeReturned /\ is_packet(obj) /\ entry.cursor = 0 /\ Succeeded )
    => ( /\ cursor = packet_size_bits(obj)
         /\ \A i \in DOMAIN buffer :
                i > footprint_size_bytes(obj) => buffer[i] = entry.buffer[i] )

\* A Packet with a nested Packet and bit-level fields was encoded from
\* cursor 0 into a dirty buffer with a spare byte behind the footprint
C2_Witness ==
    /\ EncodeReturned /\ is_packet(obj) /\ entry.cursor = 0 /\ Succeeded
    /\ Len(obj.fields) = 3
    /\ is_packet(obj.fields[2]) /\ IsBitLevel(obj.fields[1]) /\ IsBitLevel(obj.fields[3])
    /\ Len(buffer) = footprint_size_bytes(obj) + 1
    /\ buffer[Len(buffer)] = 255
    /\ cursor = 40

----------------------------------------------------------------------------
(* C3.  As claimed: a successful Packet-level encode or decode entered     *)
(* with cursor C, byte-aligned or not, returns with the cursor equal to    *)
(* C + size_in_bits(Packet).                                               *)
C3_CursorAdvancesBySize ==
    ( (EncodeReturned \/ DecodeReturned) /\ is_packet(obj) /\ Succeeded )
    => cursor = entry.cursor + kSizeBits(obj)

(* C3 as amended: a successful Packet-level encode or decode entered with  *)
(* cursor C returns with the cursor equal to next_boundary_bit_pos(C) +    *)
(* size_in_bits(Packet); the increase is exactly the Packet's bit size     *)
(* when C is byte-aligned.                                                 *)
C3_CursorAdvancesFromBoundary ==
    ( (EncodeReturned \/ DecodeReturned) /\ is_packet(obj) /\ Succeeded )
    => /\ cursor = next_boundary_bit_pos(entry.cursor) + kSizeBits(obj)
       /\ entry.cursor % 8 = 0 => cursor = entry.cursor + kSizeBits(obj)

\* A Packet was decoded from an entry cursor that is not byte-aligned
C3_Witness ==
    /\ DecodeReturned /\ is_packet(obj) /\ Succeeded
    /\ entry.cursor = 3
    /\ cursor = 8 + kSizeBits(obj)
    /\ Len(obj.fields) = 3

----------------------------------------------------------------------------
(* C4.  After any successful Packet-level encode or decode, for any entry  *)
(* cursor and any schema (also one ending in a bit-level field, or holding *)
(* nested Packets), the cursor on return is a multiple of 8.               *)
C4_CursorByteAligned ==
    ( (EncodeReturned \/ DecodeReturned) /\ is_packet(obj) /\ Succeeded )
    => cursor % 8 = 0

\* A Packet ending in a bit-level field that leaves a partial byte was
\* encoded from an entry cursor that is not byte-aligned
C4_Witness ==
    /\ EncodeReturned /\ is_packet(obj) /\ Succeeded
    /\ entry.cursor % 8 # 0
    /\ obj.fields[Len(obj.fields)].kind = "BitField"
    /\ obj.fields[Len(obj.fields)].bits = 12
    /\ is_packet(obj.fields[1])
    /\ cursor % 8 = 0

----------------------------------------------------------------------------
(* C5.  No rewind on failure: for every encode and decode overload (plain  *)
(* value, Field, BitField, ConstBitField, Packet), if the call returns     *)
(* failure the caller's cursor on return equals its value on entry, also   *)
(* when the entry cursor is not byte-aligned.                              *)
C5_CursorKeptOnFailure ==
    ( (EncodeReturned \/ DecodeReturned) /\ Failed ) => cursor = entry.cursor

\* A Packet-level encode entered with a cursor that is not byte-aligned
\* failed
C5_Witness ==
    /\ EncodeReturned /\ Failed /\ is_packet(obj)
    /\ entry.cursor % 8 # 0
    /\ cursor = entry.cursor

----------------------------------------------------------------------------
(* C6.  When an encode call (plain value, Field, BitField, Packet) returns *)
(* failure because the destination buffer is too small, no byte of the     *)
(* destination buffer is modified by that call.                            *)
C6_BufferKeptOnFailure ==
    ( EncodeReturned /\ Failed ) => buffer = entry.buffer

\* A Packet of several fields, the first of which fits, failed to encode
\* into a buffer one byte short
C6_Witness ==
    /\ EncodeReturned /\ Failed /\ is_packet(obj)
    /\ Len(obj.fields) = 3
    /\ obj.fields[1].kind = "Field"
    /\ Len(buffer) >= 2
    /\ Len(buffer) = Need(obj, entry.cursor) - 1
    /\ buffer = entry.buffer

----------------------------------------------------------------------------
(* The layout the specification describes: where a field of a Packet lies  *)
(* in the stream, told from the widths alone                               *)

\* Bits a field occupies: N for a bit-level field, the footprint otherwise
Width(f) == IF is_packet(f) THEN kSizeBits(f) ELSE f.bits

\* N1 + ... + Nk
RECURSIVE SumBits(_, _)
SumBits(fields, k) == IF k = 0 THEN 0 ELSE fields[k].bits + SumBits(fields, k - 1)

\* Total width of the run of bit-level fields that ends with field j
RECURSIVE RunBits(_, _)
RunBits(fields, j) ==
    IF j = 0 THEN 0
    ELSE IF ~IsBitLevel(fields[j]) THEN 0
    ELSE fields[j].bits + RunBits(fields, j - 1)

\* Padding before an aligned field that follows a run of S bits
PadAfter(S) == (8 - (S % 8)) % 8

\* First stream bit of field k of a Packet whose first field lies at `base`:
\* a bit-level field follows its predecessor at once, an aligned field or
\* nested Packet follows a run of S bits after (-S) mod 8 padding bits
RECURSIVE LayoutStart(_, _, _)
LayoutStart(fields, k, base) ==
    IF k = 1 THEN base
    ELSE LET prevEnd == LayoutStart(fields, k - 1, base) + Width(fields[k - 1])
         IN  IF IsBitLevel(fields[k]) THEN prevEnd
             ELSE prevEnd + PadAfter(RunBits(fields, k - 1))

\* The stream holds `o` from bit `start` on: each bit of a leaf's width, and
\* each field of a nested Packet where the layout puts it
RECURSIVE Appears(_, _, _)
Appears(o, bytes, start) ==
    IF is_packet(o)
    THEN \A k \in DOMAIN o.fields :
            Appears(o.fields[k], bytes, LayoutStart(o.fields, k, start))
    ELSE \A i \in 0..(o.bits - 1) :
            StreamBit(bytes, start + i) = StreamBit(o.value, i)

\* The stream bits from..(to - 1) are zero
ZeroBits(bytes, from, to) == \A b \in from..(to - 1) : StreamBit(bytes, b) = 0

AllBitLevel(o) == \A k \in DOMAIN o.fields : IsBitLevel(o.fields[k])

IsAligned(f) == f.kind \in {"Field", "Packet"}

----------------------------------------------------------------------------
----------------------------------------------------------------------------
(* C8.  Packing: for a Packet of BitField / ConstBitField fields only, of   *)
(* widths N1..Nk, size_in_bytes(Packet) = ceil((N1 + ... + Nk) / 8), and   *)
(* encode places field i in the stream bits [N1 + ... + N(i-1),            *)
(* N1 + ... + Ni) of the Packet, with no gap, also across byte boundaries. *)
C8_Packing ==
    /\ ( is_packet(obj) /\ AllBitLevel(obj) )
       => footprint_size_bytes(obj) = (SumBits(obj.fields, Len(obj.fields)) + 7) \div 8
    /\ ( EncodeReturned /\ Succeeded /\ is_packet(obj) /\ AllBitLevel(obj)
         /\ IsZero(entry.buffer) )
       => \A k \in DOMAIN obj.fields :
            \A i \in 0..(obj.fields[k].bits - 1) :
                StreamBit(buffer, next_boundary_bit_pos(entry.cursor)
                                  + SumBits(obj.fields, k - 1) + i)
                    = StreamBit(obj.fields[k].value, i)

\* Three bit-level fields of 20, 5 and 12 bits, none ending on a byte
\* boundary, were encoded into a cleared buffer of 5 bytes
C8_Witness ==
    /\ EncodeReturned /\ Succeeded /\ is_packet(obj) /\ AllBitLevel(obj)
    /\ IsZero(entry.buffer) /\ entry.cursor = 0
    /\ Len(obj.fields) = 3
    /\ obj.fields[1].bits = 20 /\ obj.fields[2].bits = 5 /\ obj.fields[3].bits = 12
    /\ InRange(obj)
    /\ Len(buffer) = 5
    /\ ~IsZero(buffer)

----------------------------------------------------------------------------
(* C9.  Alignment boundary: inside a Packet encoded into a zero-filled     *)
(* buffer, an AlignedField or nested Packet that follows a run of bit-     *)
(* level fields of S bits in total starts exactly (-S) mod 8 bits after    *)
(* the end of the run, those padding bits are zero in the output, and no   *)
(* padding is inserted when a bit-level field follows an AlignedField or   *)
(* nested Packet.                                                          *)
C9_AlignmentBoundary ==
    ( EncodeReturned /\ Succeeded /\ is_packet(obj) /\ IsZero(entry.buffer) )
    => \A k \in 2..Len(obj.fields) :
         LET base == next_boundary_bit_pos(entry.cursor)
             prevEnd == LayoutStart(obj.fields, k - 1, base) + Width(obj.fields[k - 1])
             S == RunBits(obj.fields, k - 1)
         IN  /\ ( IsAligned(obj.fields[k]) /\ IsBitLevel(obj.fields[k - 1]) )
                => /\ Appears(obj.fields[k], buffer, prevEnd + PadAfter(S))
                   /\ ZeroBits(buffer, prevEnd, prevEnd + PadAfter(S))
             /\ ( IsBitLevel(obj.fields[k]) /\ IsAligned(obj.fields[k - 1]) )
                => Appears(obj.fields[k], buffer, prevEnd)

\* A nested Packet follows a run of 13 bits after 3 padding bits, and a
\* bit-level field follows the nested Packet at once
C9_Witness ==
    /\ EncodeReturned /\ Succeeded /\ is_packet(obj) /\ IsZero(entry.buffer)
    /\ entry.cursor = 0
    /\ Len(obj.fields) = 3
    /\ obj.fields[1].kind = "BitField" /\ obj.fields[1].bits = 12
    /\ is_packet(obj.fields[2])
    /\ obj.fields[3].kind = "BitField" /\ obj.fields[3].bits = 12
    /\ InRange(obj)
    /\ RunBits(obj.fields, 1) = 12
    /\ LayoutStart(obj.fields, 2, 0) = 16
    /\ LayoutStart(obj.fields, 3, 0) = 32
    /\ buffer[2] < 16

----------------------------------------------------------------------------
(* C10.  Bit layout of encode: a successful encode of BitField(N) or       *)
(* ConstBitField(N) holding x at cursor C, into a buffer whose bits from C *)
(* on are zero, sets stream bit C + i to bit i of x for every 0 <= i < N,  *)
(* for every in-byte offset C mod 8 and every N in 1..64; bits of x at     *)
(* positions >= N appear nowhere in the buffer (every other bit of the     *)
(* buffer is as it was).                                                   *)
C10_BitLayout ==
    ( EncodeReturned /\ Succeeded /\ IsBitLevel(obj)
      /\ ZeroBits(entry.buffer, entry.cursor, 8 * Len(entry.buffer)) )
    => \A b \in 0..(8 * Len(buffer) - 1) :
         StreamBit(buffer, b) =
            IF b >= entry.cursor /\ b < entry.cursor + obj.bits
            THEN StreamBit(obj.value, b - entry.cursor)
            ELSE StreamBit(entry.buffer, b)

\* A BitField of 33 bits holding bits beyond its width was encoded at
\* in-byte offset 7 behind earlier data
C10_Witness ==
    /\ EncodeReturned /\ Succeeded /\ obj.kind = "BitField"
    /\ obj.bits = 33 /\ ~InRange(obj)
    /\ entry.cursor = 7
    /\ entry.buffer[1] = 127
    /\ ZeroBits(entry.buffer, entry.cursor, 8 * Len(entry.buffer))
    /\ Len(buffer) = 6
    /\ buffer[1] = 255 /\ buffer[6] = 0

----------------------------------------------------------------------------
(* C11.  Decode owns its output: a successful decode of BitField(N) at     *)
(* cursor C sets the field's stored value to exactly the unsigned integer  *)
(* whose bit i equals stream bit C + i for 0 <= i < N and whose bits at    *)
(* positions >= N are zero, whatever the field held before the call, for   *)
(* every N in 1..64, also where ceil(N/8) is smaller than the byte size of *)
(* the field's storage type.                                               *)
C11_DecodeOwnsOutput ==
    ( DecodeReturned /\ Succeeded /\ obj.kind = "BitField" )
    => \A i \in 0..(8 * Len(dst.value) - 1) :
         StreamBit(dst.value, i) =
            IF i < obj.bits THEN StreamBit(buffer, entry.cursor + i) ELSE 0

----------------------------------------------------------------------------
(* C12.  Byte-aligned single-value codec at an arbitrary cursor: encode    *)
(* (decode) of a plain value or AlignedField of type T with entry cursor C *)
(* writes (reads) exactly size_in_bytes(T) bytes starting at byte index    *)
(* ceil(C/8), leaves every buffer byte before that index (and every other  *)
(* byte) unmodified, and on success sets the cursor to                     *)
(* 8 * ceil(C/8) + size_in_bits(T).                                        *)
C12_AlignedAtCursor ==
    LET first == (entry.cursor + 7) \div 8
        count == Len(obj.value)
    IN  /\ ( EncodeReturned /\ Succeeded /\ obj.kind \in {"Value", "Field"} )
           => /\ cursor = 8 * first + 8 * count
              /\ Len(buffer) = Len(entry.buffer)
              /\ \A i \in DOMAIN buffer :
                    buffer[i] = IF i > first /\ i <= first + count
                                THEN obj.value[i - first]
                                ELSE entry.buffer[i]
        /\ ( DecodeReturned /\ Succeeded /\ obj.kind \in {"Value", "Field"} )
           => /\ cursor = 8 * first + 8 * count
              /\ buffer = entry.buffer
              /\ Len(dst.value) = count
              /\ \A i \in 1..count : dst.value[i] = buffer[first + i]

\* A 4-byte value was encoded at cursor 9 into a buffer of ones and decoded
\* back from cursor 9: bytes 0 and 1 stayed, bytes 2..5 hold the value
C12_Witness ==
    /\ RoundTripReturned /\ Succeeded
    /\ obj.kind = "Value" /\ Len(obj.value) = 4
    /\ encoded.cursor = 9 /\ entry.cursor = 9
    /\ encoded.result = kSuccessCode
    /\ encoded.buffer = <<255, 255, 255, 255, 255, 255, 255>>
    /\ obj.value = <<165, 90, 195, 60>>
    /\ buffer = <<255, 255, 165, 90, 195, 60, 255>>
    /\ dst.value = obj.value
    /\ entry.dst.value # obj.value
    /\ cursor = 48

----------------------------------------------------------------------------
(* C13.  Capacity is enforced by every field-level decode: for each field  *)
(* kind (plain value / Field, BitField, ConstBitField) a stand-alone       *)
(* decode at cursor C returns failure whenever the field's footprint does  *)
(* not fit in the rest of the source buffer (C + N > 8 * buffer.size() for *)
(* bit-level fields, ceil(C/8) + size_in_bytes(T) > buffer.size() for      *)
(* byte-aligned values), so no successful decode leaves the cursor beyond  *)
(* 8 * buffer.size().                                                      *)
C13_DecodeCapacity ==
    ( DecodeReturned /\ ~is_packet(obj) )
    => /\ ( IsBitLevel(obj) /\ entry.cursor + obj.bits > 8 * Len(buffer) ) => Failed
       /\ ( ~IsBitLevel(obj)
            /\ ((entry.cursor + 7) \div 8) + Len(obj.value) > Len(buffer) ) => Failed
       /\ Succeeded => cursor <= 8 * Len(buffer)

----------------------------------------------------------------------------
(* C20.  Field ordering: Packet encode and decode process fields strictly  *)
(* in declaration order, each field starting from the cursor left by the   *)
(* previous one, so that for i < j every stream bit occupied by field i    *)
(* precedes every stream bit occupied by field j and no two fields' bit    *)
(* ranges overlap; processing stops at the first field that fails and      *)
(* later fields are not attempted.                                         *)

\* First stream bit the field of visit v occupies
VisitStart(v) ==
    IF IsBitLevel(obj.fields[v.index + 1]) THEN v.from
    ELSE next_boundary_bit_pos(v.from)

C20_FieldOrdering ==
    phase = "walked" =>
      /\ \A k \in DOMAIN visits :
            /\ visits[k].index = k - 1
            /\ visits[k].from = IF k = 1 THEN entry.cursor ELSE visits[k - 1].to
            /\ visits[k].result = kFailureCode => k = Len(visits)
            /\ visits[k].result = kSuccessCode =>
                  /\ VisitStart(visits[k]) + Width(obj.fields[k]) = visits[k].to
                  /\ \A j \in DOMAIN visits :
                        (k < j /\ visits[j].result = kSuccessCode)
                        => visits[k].to <= VisitStart(visits[j])
      /\ Succeeded <=> ( /\ Len(visits) = Len(obj.fields)
                         /\ \A k \in DOMAIN visits : visits[k].result = kSuccessCode )
      /\ Failed <=> ( /\ Len(visits) >= 1 /\ Len(visits) <= Len(obj.fields)
                      /\ visits[Len(visits)].result = kFailureCode )
      /\ cursor = IF Len(visits) = 0 THEN entry.cursor ELSE visits[Len(visits)].to

\* A walk over three fields from an unaligned cursor stopped at the second
\* field, which found no room: the first was processed, the third was not
C20_Witness ==
    /\ phase = "walked" /\ Failed
    /\ Len(obj.fields) = 3
    /\ Len(visits) = 2
    /\ visits[1].result = kSuccessCode /\ visits[1].from = 3
    /\ visits[1].to > visits[1].from
    /\ visits[2].result = kFailureCode /\ visits[2].from = visits[1].to
    /\ visits[2].to = visits[2].from

----------------------------------------------------------------------------
(* Vocabulary of the adapter properties *)

PutReturned == phase = "returned" /\ session.op = "Put"
GetReturned == phase = "returned" /\ session.op = "Get"

\* The availability the session reported was enough for the value
PreflightPassed == session.available >= footprint_size_bytes(obj)

\* The calls to `fn` the session buffer received, in order
CallsTo(fn) == SelectSeq(session.calls, LAMBDA c : c.fn = fn)

Max(a, b) == IF a > b THEN a ELSE b

\* The stream bits the fields of `o` occupy when `o` lies at bit `start`
RECURSIVE Covered(_, _)
Covered(o, start) ==
    IF is_packet(o)
    THEN UNION { Covered(o.fields[k], LayoutStart(o.fields, k, start)) :
                    k \in DOMAIN o.fields }
    ELSE start..(start + o.bits - 1)

\* `bytes` is the encoding of `o`: as long as the footprint, every field
\* where the layout puts it, every other bit zero
IsEncodingOf(o, bytes) ==
    /\ Len(bytes) = footprint_size_bytes(o)
    /\ Appears(o, bytes, 0)
    /\ \A b \in (0..(8 * Len(bytes) - 1)) \ Covered(o, 0) : StreamBit(bytes, b) = 0

----------------------------------------------------------------------------
(* C14.  Adapter preflight: Ingress.Get returns failure without ever       *)
(* invoking Inbound.Request when InputBytesAvailable() < size_in_bytes(T), *)
(* and Egress.Put returns failure without ever invoking Outbound.Post when *)
(* OutputBytesAvailable() < size_in_bytes(T); in both cases the            *)
(* availability query is made exactly once.                                *)
C14_AdapterPreflight ==
    /\ ( GetReturned /\ ~PreflightPassed )
       => /\ Failed
          /\ Len(CallsTo("Request")) = 0
          /\ Len(CallsTo("InputBytesAvailable")) = 1
          /\ Len(session.calls) = 1
    /\ ( PutReturned /\ ~PreflightPassed )
       => /\ Failed
          /\ Len(CallsTo("Post")) = 0
          /\ Len(CallsTo("OutputBytesAvailable")) = 1
          /\ Len(session.calls) = 1

\* Put of a 4-byte value returned failure from a session reporting 3 bytes
C14_Witness ==
    /\ PutReturned /\ Failed
    /\ footprint_size_bytes(obj) = 4 /\ session.available = 3
    /\ session.overload = "Put(data, duration)" /\ session.timeout = MaxTimeout
    /\ session.calls[1].fn = "OutputBytesAvailable" /\ session.calls[1].ret = 3

----------------------------------------------------------------------------
----------------------------------------------------------------------------
(* C16.  When its preflight passes, Ingress.Get(out, d) issues exactly one *)
(* Inbound.Request, with a span of exactly size_in_bytes(T) zero-filled    *)
(* bytes and with timeout equal to d unchanged; Get(out) without a timeout *)
(* passes a zero timeout.                                                  *)
C16_OneRequest ==
    ( GetReturned /\ PreflightPassed )
    => /\ Len(CallsTo("Request")) = 1
       /\ Len(CallsTo("Request")[1].span) = footprint_size_bytes(obj)
       /\ IsZero(CallsTo("Request")[1].span)
       /\ session.overload = "Get(data, timeout)"
            => CallsTo("Request")[1].timeout = session.timeout
       /\ session.overload = "Get(data)" => CallsTo("Request")[1].timeout = 0

\* Get of a Packet with a timeout of 3 requested 5 zeroed bytes for 3
C16_Witness ==
    /\ GetReturned /\ PreflightPassed
    /\ is_packet(obj) /\ footprint_size_bytes(obj) = 5
    /\ session.overload = "Get(data, timeout)" /\ session.timeout = 3
    /\ Len(session.calls) = 2
    /\ session.calls[2].fn = "Request"
    /\ session.calls[2].span = <<0, 0, 0, 0, 0>>
    /\ session.calls[2].timeout = 3
    /\ ~IsZero(buffer)

----------------------------------------------------------------------------
(* C17.  Egress result propagation: for every Put whose preflight passes,  *)
(* Outbound.Post is called exactly once with a span of exactly             *)
(* size_in_bytes(T) bytes holding the encoding of the value, and Put       *)
(* returns success if and only if that Post call returned success.         *)
C17_EgressPropagation ==
    ( PutReturned /\ PreflightPassed )
    => /\ Len(CallsTo("Post")) = 1
       /\ IsEncodingOf(obj, CallsTo("Post")[1].span)
       /\ Succeeded <=> CallsTo("Post")[1].ret = kSuccessCode
       /\ Failed <=> CallsTo("Post")[1].ret = kFailureCode

\* Put of a Packet posted its 5 bytes and returned the failure Post gave
C17_Witness ==
    /\ PutReturned /\ PreflightPassed /\ Failed
    /\ is_packet(obj) /\ InRange(obj) /\ Len(obj.fields) = 3
    /\ Len(session.calls) = 2
    /\ session.calls[2].fn = "Post" /\ session.calls[2].ret = kFailureCode
    /\ Len(session.calls[2].span) = 5
    /\ ~IsZero(session.calls[2].span)

----------------------------------------------------------------------------
(* C18.  Ingress result propagation: Ingress.Get returns success if and    *)
(* only if its preflight passed and the single Inbound.Request returned    *)
(* success (the decode of the exactly-sized buffer from cursor 0 never     *)
(* fails); when Request returns failure, Get returns failure and no decode *)
(* into out_value is performed.                                            *)
C18_IngressPropagation ==
    GetReturned
    => /\ Succeeded <=> ( /\ PreflightPassed
                          /\ Len(CallsTo("Request")) = 1
                          /\ CallsTo("Request")[1].ret = kSuccessCode )
       /\ ~Succeeded => Failed
       /\ ( Len(CallsTo("Request")) = 1 /\ CallsTo("Request")[1].ret = kFailureCode )
          => ( Failed /\ dst = entry.dst /\ cursor = 0 )

\* A Request that failed after it had left bytes in the span: Get returned
\* failure and the out value kept what it held
C18_Witness ==
    /\ GetReturned /\ PreflightPassed /\ Failed
    /\ Len(session.calls) = 2
    /\ session.calls[2].fn = "Request" /\ session.calls[2].ret = kFailureCode
    /\ ~IsZero(buffer)
    /\ obj.kind = "Value"
    /\ buffer = obj.value
    /\ dst = entry.dst
    /\ dst.value # buffer

----------------------------------------------------------------------------
(* C19.  Result envelope poles: for every BinaryResult value exactly one   *)
(* of IsSuccess() and IsFailure() is true (Success() is success, Failure() *)
(* is failure), whereas a Transference result holding the in-flight code   *)
(* kPending, the value every newly constructed Transference has, is        *)
(* neither success nor failure.                                            *)
C19_ResultPoles ==
    /\ \A code \in BinaryResultCode :
          IsSuccess(BinaryResult(code)) <=> ~IsFailure(BinaryResult(code))
    /\ IsSuccess(Success) /\ ~IsFailure(Success)
    /\ IsFailure(Failure) /\ ~IsSuccess(Failure)
    /\ result # "none"
          => /\ result \in BinaryResultCode
             /\ IsSuccess(BinaryResult(result)) <=> ~IsFailure(BinaryResult(result))
    /\ ( session.op # "none" /\ session.transference # <<>> )
          => LET r == GetResult(session.transference[1])
             IN  /\ session.fresh => r.m_code = kPending
                 /\ r.m_code = kPending => ( ~IsSuccess(r) /\ ~IsFailure(r) )
                 /\ r.m_code \in ResultCode

\* A Transference just packed around the span a successful Put posted: Put's
\* result is success, the Transference's is pending
C19_Witness ==
    /\ PutReturned /\ Succeeded
    /\ session.transference # <<>> /\ session.fresh
    /\ GetResult(session.transference[1]).m_code = kPending
    /\ GetData(session.transference[1]) = session.calls[2].span
    /\ IsSuccess(BinaryResult(result))

----------------------------------------------------------------------------
----------------------------------------------------------------------------
(* Vocabulary of the Memory math properties *)

AlignReturned == phase \in {"aligned", "realigned"}

\* y is the least multiple of 8 that is at or above x
IsLeastBoundaryFrom(y, x) == y % 8 = 0 /\ y >= x /\ y - x < 8

\* The positions of size_t with a multiple of 8 of size_t at or above them
HasBoundaryAbove(x) == x <= SizeMax - 7

(* C22 as stated.  For every cursor value x of size_t,                     *)
(* next_boundary_bit_pos(next_boundary_bit_pos(x)) = next_boundary_bit_pos(x) *)
(* and next_boundary_bit_pos(x) is the least multiple of 8 that is >= x.   *)
C22_AlignmentMinimal ==
    AlignReturned =>
      /\ IsLeastBoundaryFrom(visits[1].to, visits[1].from)
      /\ phase = "realigned" => visits[2].to = visits[1].to

(* C22.  Alignment is idempotent for every x of size_t, and                *)
(* next_boundary_bit_pos(x) is the least multiple of 8 that is >= x for    *)
(* every x up to the largest multiple of 8 of size_t (x <= max - 7); for   *)
(* the seven values above it the result wraps to 0.                        *)
C22_AlignmentWithinRange ==
    AlignReturned =>
      /\ HasBoundaryAbove(visits[1].from)
            => IsLeastBoundaryFrom(visits[1].to, visits[1].from)
      /\ ~HasBoundaryAbove(visits[1].from) => visits[1].to = 0
      /\ phase = "realigned" =>
            /\ visits[2].from = visits[1].to
            /\ visits[2].to = visits[1].to

\* 13 rounded to 16 and 16 rounded again
C22_Witness ==
    /\ phase = "realigned"
    /\ visits[1].from = 13 /\ visits[1].to = 16
    /\ visits[2].from = 16 /\ visits[2].to = 16

----------------------------------------------------------------------------
(* Vocabulary of the schema-time size properties *)

\* t rounded up to a multiple of 8
RoundUp8(t) == t + PadAfter(t)

\* The size of a schema told from its field list: the left fold from 0 of
\* the per-field contributions, rounded up once at the end
RECURSIVE SchemaBits(_)
RECURSIVE FoldBits(_, _)
FoldBits(fields, k) ==
    IF k = 0 THEN 0
    ELSE IF IsBitLevel(fields[k])
         THEN FoldBits(fields, k - 1) + fields[k].bits
         ELSE RoundUp8(FoldBits(fields, k - 1)) + SchemaBits(fields[k])

SchemaBits(o) ==
    IF is_packet(o) THEN RoundUp8(FoldBits(o.fields, Len(o.fields))) ELSE o.bits

\* o and every Packet nested in o
RECURSIVE PacketsOf(_)
PacketsOf(o) ==
    IF is_packet(o)
    THEN {o} \cup UNION { PacketsOf(o.fields[k]) : k \in DOMAIN o.fields }
    ELSE {}

(* C23.  Every Packet is a whole number of bytes: kSizeBits of a Packet is *)
(* the left fold from 0 of its fields' contributions (an aligned field or  *)
(* nested Packet rounds the running total up to a byte and adds its size,  *)
(* a BitField or ConstBitField adds N) rounded up to a byte boundary, so   *)
(* kSizeBits is a multiple of 8 and kSizeBytes * 8 = kSizeBits.            *)
C23_WholeBytes ==
    \A p \in PacketsOf(obj) :
        /\ kSizeBits(p) = SchemaBits(p)
        /\ kSizeBits(p) =
              next_boundary_bit_pos(
                  accumulate_packet_field_size_bits_recursive(0, Len(p.fields), p, 0))
        /\ kSizeBits(p) % 8 = 0
        /\ footprint_size_bytes(p) * 8 = kSizeBits(p)

\* A Packet of a bool, a nested Packet and a BitField<20>: the fold is
\* 1, 8 + 16 = 24, 44, rounded up to 48, and the encoder walked 48 bits
C23_Witness ==
    /\ EncodeReturned /\ Succeeded /\ entry.cursor = 0
    /\ is_packet(obj) /\ Len(obj.fields) = 3
    /\ obj.fields[1].kind = "BitField" /\ obj.fields[1].bits = 1
    /\ is_packet(obj.fields[2])
    /\ obj.fields[3].kind = "BitField" /\ obj.fields[3].bits = 20
    /\ FoldBits(obj.fields, 3) = 44
    /\ kSizeBits(obj) = 48 /\ cursor = 48

----------------------------------------------------------------------------
(* Vocabulary of the timer properties *)

ResetReturned == timer.op = "Reset"
RearmReturned == timer.op \in {"Reset", "Set"}

\* The clock read the same at every reading the call took: the time of the
\* call is that reading
ReadAt(now) == \A i \in DOMAIN timer.readings : timer.readings[i] = now

\* m_duration_ns in periods of the clock
PeriodOf(t) == t.m_duration_ns \div kNanosPerTick

----------------------------------------------------------------------------
\* The duration the re-arming call armed the timer with: the one handed to
\* Set, or the one the timer held when Reset was called
ArmedWith == IF timer.op = "Set" THEN timer.arg ELSE timer.before.m_duration_ns

(* C30.  A re-armed BasicTimer is not already expired: right after Reset() *)
(* or Set(d) with a duration d > 0, at the clock reading the call used,    *)
(* IsExpired() is false; it stays false until the clock reaches the new    *)
(* expiration time; and IsOverExpired() is never true while IsExpired() is *)
(* false.                                                                  *)
C30_RearmedNotExpired ==
    ( RearmReturned /\ ArmedWith > 0 ) =>
      \A now \in Ticks :
        ReadAt(now) =>
          /\ ~IsExpired(TimerOf, now)
          /\ \A later \in Ticks :
                ( now <= later /\ later < timer.m_expire_time )
                    => ~IsExpired(TimerOf, later)
          /\ \A any \in Ticks :
                ~IsExpired(TimerOf, any) => ~IsOverExpired(TimerOf, any)

----------------------------------------------------------------------------
(* Vocabulary of the Packet-level properties *)

\* The up-front capacity check of the Packet call that returned passed
GuardPassed ==
    bytes_to_contain(entry.cursor) + footprint_size_bytes(obj) <= Len(entry.buffer)

\* The calls on the fields of the Packet that the call that returned made
FieldCalls ==
    LET from == bits_to_contain(bytes_to_contain(entry.cursor))
    IN  IF entry.op = "encode"
        THEN encode_packet_fields_recursive(0, Len(obj.fields), entry.buffer, from,
                                            obj.fields).visits
        ELSE decode_packet_fields_recursive(0, Len(obj.fields), entry.buffer, from,
                                            entry.dst.fields).visits

(* C25.  Packet-level atomicity: once the capacity check of a Packet       *)
(* encode or decode passes (ceil(C/8) + kSizeBytes <= buffer.size()) no    *)
(* encode / decode of a field inside it returns failure, nested Packets    *)
(* and fields behind padding included, so the call either fails before it  *)
(* touches anything or succeeds completely.                                *)
C25_PacketAtomic ==
    ( ( EncodeReturned \/ DecodeReturned ) /\ is_packet(obj) ) =>
      /\ GuardPassed =>
            /\ Succeeded
            /\ Len(FieldCalls) = Len(obj.fields)
            /\ \A k \in DOMAIN FieldCalls : FieldCalls[k].result = kSuccessCode
      /\ ~GuardPassed =>
            /\ Failed
            /\ buffer = entry.buffer
            /\ cursor = entry.cursor
            /\ DecodeReturned => dst = entry.dst

\* A Packet of a BitField<12>, a nested Packet behind padding and a
\* BitField<20> encoded from cursor 3 into a buffer with no byte to spare
C25_Witness ==
    /\ EncodeReturned /\ Succeeded /\ entry.cursor = 3
    /\ Len(entry.buffer) = 1 + footprint_size_bytes(obj)
    /\ Len(obj.fields) = 3
    /\ obj.fields[1].kind = "BitField" /\ obj.fields[1].bits = 12
    /\ is_packet(obj.fields[2])
    /\ obj.fields[3].kind = "BitField" /\ obj.fields[3].bits = 20
    /\ Len(FieldCalls) = 3
    /\ cursor = 8 + kSizeBits(obj)

----------------------------------------------------------------------------
(* Vocabulary of the buffer properties *)

\* Stream bit b of the buffer is as it was when the call was made
BitKept(b) == StreamBit(buffer, b) = StreamBit(entry.buffer, b)

BufferBits == 0..(8 * Len(buffer) - 1)

(* C26.  Frame of a bit-level encode: a successful encode of a BitField<N> *)
(* or ConstBitField<N> at cursor C leaves every buffer bit outside         *)
(* [C, C + N) as it was, the bits below C in the first byte touched and    *)
(* the bits at or above C + N in the last byte touched alike, whatever the *)
(* buffer held before.                                                     *)
C26_BitEncodeFrame ==
    ( EncodeReturned /\ Succeeded /\ IsBitLevel(obj) ) =>
      \A b \in BufferBits :
        ( b < entry.cursor \/ b >= entry.cursor + obj.bits ) => BitKept(b)

----------------------------------------------------------------------------
EncodedAgain == phase = "encoded again"

(* C27.  Encode is idempotent on the buffer: encoding the same Packet      *)
(* twice into the same buffer from the same entry cursor leaves the buffer *)
(* byte for byte as encoding it once left it, whatever the buffer held     *)
(* before.                                                                 *)
C27_EncodeIdempotent ==
    EncodedAgain =>
      /\ entry.cursor = encoded.cursor
      /\ buffer = entry.buffer
      /\ result = encoded.result

\* A Packet with a BitField<12> encoded twice from cursor 3 into a buffer of
\* ones: the first encoding changed the buffer, the second did not
C27_Witness ==
    /\ EncodedAgain /\ Succeeded /\ entry.cursor = 3
    /\ \E k \in DOMAIN obj.fields :
          obj.fields[k].kind = "BitField" /\ obj.fields[k].bits = 12
    /\ \A i \in DOMAIN encoded.buffer : encoded.buffer[i] = 255
    /\ entry.buffer # encoded.buffer
    /\ buffer = entry.buffer

----------------------------------------------------------------------------
\* The bytes the call that returned touched
Touched ==
    IF entry.op = "encode" THEN touches("encode", obj, entry.buffer, entry.cursor)
    ELSE touches("decode", entry.dst, entry.buffer, entry.cursor)

----------------------------------------------------------------------------
SubspanReturned == spans.op = "subspan"

(* C29.  Span::subspan never escapes its parent: for every start and count *)
(* (the default npos, a start above count() and a start + count that       *)
(* overflows included) the result satisfies start + result.count() <=      *)
(* parent.count(), and result.count() = min(count, parent.count() - start) *)
(* whenever start <= parent.count().                                       *)
C29_SubspanWithinParent ==
    SubspanReturned =>
      /\ spans.start + spans.ret.m_count <= spans.m_count
      /\ spans.start <= spans.m_count
            => spans.ret.m_count = Min(spans.count, spans.m_count - spans.start)

====
